---- MODULE Spec2Model ----
(***************************************************************************)
(* A model of lavish's Rust code generator: the fold of the parsed modules *)
(* into one namespace forest (Context::visit_toplevel_ns, Namespace::merge),*)
(* the naming functions of Fun, and the emission of the artifact by        *)
(* codegen / visit_ns (src/lavish/src/codegen/rust.rs).                    *)
(*                                                                         *)
(* Text is modelled as sequences of one-character strings, so that the     *)
(* case conversions, split('.') and join are computed, not assumed.        *)
(***************************************************************************)
EXTENDS Integers, Sequences, FiniteSets, TLC

\* Number of top-level namespace declarations in the input (over all modules).
MaxDecls == 3

-----------------------------------------------------------------------------
(* Characters and strings                                                  *)

LowerChars ==
  << "a","b","c","d","e","f","g","h","i","j","k","l","m",
     "n","o","p","q","r","s","t","u","v","w","x","y","z" >>

UpperChars ==
  << "A","B","C","D","E","F","G","H","I","J","K","L","M",
     "N","O","P","Q","R","S","T","U","V","W","X","Y","Z" >>

Range(s) == { s[i] : i \in 1..Len(s) }

LowerSet == Range(LowerChars)

UpperSet == Range(UpperChars)

is_lowercase(c) == c \in LowerSet

is_uppercase(c) == c \in UpperSet

IndexIn(s, c) == CHOOSE i \in 1..Len(s) : s[i] = c

char_to_uppercase(c) == IF is_lowercase(c) THEN UpperChars[IndexIn(LowerChars, c)] ELSE c

char_to_lowercase(c) == IF is_uppercase(c) THEN LowerChars[IndexIn(UpperChars, c)] ELSE c

\* str::to_lowercase
to_lowercase(s) == [i \in 1..Len(s) |-> char_to_lowercase(s[i])]

\* str::replace with a one-character pattern and a one-character replacement
replace(s, from, to) == [i \in 1..Len(s) |-> IF s[i] = from THEN to ELSE s[i]]

RECURSIVE concat(_)
\* the concatenation of a sequence of strings
concat(ss) == IF ss = << >> THEN << >> ELSE Head(ss) \o concat(Tail(ss))

RECURSIVE join(_, _)
\* [String]::join(sep)
join(ss, sep) ==
  IF ss = << >> THEN << >>
  ELSE IF Len(ss) = 1 THEN ss[1]
  ELSE ss[1] \o sep \o join(Tail(ss), sep)

RECURSIVE split_from(_, _, _, _)
split_from(s, sep, i, cur) ==
  IF i > Len(s) THEN << cur >>
  ELSE IF s[i] = sep THEN << cur >> \o split_from(s, sep, i + 1, << >>)
  ELSE split_from(s, sep, i + 1, Append(cur, s[i]))

\* str::split(char), collected: the pieces between the separators, empty ones kept
split(s, sep) == split_from(s, sep, 1, << >>)

-----------------------------------------------------------------------------
(* The heck crate's case conversions (CamelCase, MixedCase, SnakeCase), as  *)
(* its transform() computes them for one word of letters, digits and        *)
(* underscores.                                                             *)

RECURSIVE heck_words(_, _, _, _, _)
\* the words transform() hands to with_word, in order; i is the position of
\* the current character, init the start of the current word
heck_words(w, i, init, mode, out) ==
  IF i > Len(w) THEN out
  ELSE
    LET c == w[i] IN
    IF c = "_" THEN
      heck_words(w, i + 1, IF init = i THEN init + 1 ELSE init, mode, out)
    ELSE IF i < Len(w) THEN
      LET next == w[i + 1]
          next_mode == IF is_lowercase(c) THEN "Lowercase"
                       ELSE IF is_uppercase(c) THEN "Uppercase"
                       ELSE mode
      IN  IF next = "_" \/ (next_mode = "Lowercase" /\ is_uppercase(next)) THEN
            heck_words(w, i + 1, i + 1, "Boundary", Append(out, SubSeq(w, init, i)))
          ELSE IF mode = "Uppercase" /\ is_uppercase(c) /\ is_lowercase(next) THEN
            heck_words(w, i + 1, i, "Boundary", Append(out, SubSeq(w, init, i - 1)))
          ELSE
            heck_words(w, i + 1, init, next_mode, out)
    ELSE Append(out, SubSeq(w, init, Len(w)))

\* heck's capitalize: first character upper case, the rest lower case
capitalize(w) ==
  IF w = << >> THEN << >>
  ELSE << char_to_uppercase(w[1]) >> \o to_lowercase(Tail(w))

\* CamelCase::to_camel_case: every word capitalized, no separator
to_camel_case(s) ==
  LET ws == heck_words(s, 1, 1, "Boundary", << >>)
  IN  concat([i \in 1..Len(ws) |-> capitalize(ws[i])])

\* MixedCase::to_mixed_case: the first word lower case, the others capitalized
to_mixed_case(s) ==
  LET ws == heck_words(s, 1, 1, "Boundary", << >>)
  IN  concat([i \in 1..Len(ws) |->
                IF i = 1 THEN to_lowercase(ws[i]) ELSE capitalize(ws[i])])

\* SnakeCase::to_snake_case: every word lower case, joined by underscores
to_snake_case(s) ==
  LET ws == heck_words(s, 1, 1, "Boundary", << >>)
  IN  join([i \in 1..Len(ws) |-> to_lowercase(ws[i])], << "_" >>)

-----------------------------------------------------------------------------
(* The parsed declaration tree (ast.rs)                                     *)

S_svc == << "s","v","c" >>

S_util == << "u","t","i","l" >>

S_math == << "m","a","t","h" >>

S_ping == << "p","i","n","g" >>

S_pong == << "p","o","n","g" >>

S_echo == << "e","c","h","o" >>

S_add == << "a","d","d" >>

S_foo_bar == << "f","o","o","_","b","a","r" >>

S_fooBar == << "f","o","o","B","a","r" >>

S_i32 == << "i","3","2" >>

S_Params == << "P","a","r","a","m","s" >>

S_Results == << "R","e","s","u","l","t","s" >>

S_NotificationParams ==
  << "N","o","t","i","f","i","c","a","t","i","o","n" >> \o S_Params

\* ast::Field
Field(name, typ) == [name |-> name, typ |-> typ]

\* Span of a declaration not yet placed in a module
NoLoc == [module |-> 0, decl |-> 0]

\* Option<Comment>::None
NoComment == << >>

\* ast::FunctionDecl
FunctionDecl(name, modifiers, comment, params, results) ==
  [loc |-> NoLoc, comment |-> comment, modifiers |-> modifiers, name |-> name,
   params |-> params, results |-> results]

\* ast::NotificationDecl
NotificationDecl(name, params) ==
  [loc |-> NoLoc, comment |-> NoComment, name |-> name, params |-> params]

\* ast::NamespaceDecl (its structs play no part in the generator)
NamespaceDecl(name, functions, notifications, namespaces) ==
  [loc |-> NoLoc, name |-> name, functions |-> functions,
   notifications |-> notifications, namespaces |-> namespaces]

\* ast::Module
Module(loc, namespaces) == [loc |-> loc, namespaces |-> namespaces]

(* The top-level namespace declarations the input is drawn from.  Sibling   *)
(* names are unique within one declaration, as the parser hands them over.  *)

Decl_svc_ping ==
  NamespaceDecl(S_svc,
    << FunctionDecl(S_ping, {"Server"}, << S_ping >>, << >>, << >>) >>,
    << >>, << >>)

Decl_svc_pong_util ==
  NamespaceDecl(S_svc,
    << FunctionDecl(S_pong, {"Client"}, NoComment, << >>, << >>) >>,
    << >>,
    << NamespaceDecl(S_util,
         << FunctionDecl(S_echo, {"Server"}, NoComment, << >>, << >>) >>,
         << >>, << >>) >>)

Decl_svc_util_add ==
  NamespaceDecl(S_svc,
    << FunctionDecl(S_add, {"Server"}, NoComment, << >>, << >>) >>,
    << NotificationDecl(S_pong, << >>) >>,
    << NamespaceDecl(S_util,
         << FunctionDecl(S_echo, {"Server", "Notification"}, NoComment, << >>, << >>),
            FunctionDecl(S_fooBar, {"Client"}, NoComment, << >>, << >>) >>,
         << >>, << >>) >>)

Decl_math_add ==
  NamespaceDecl(S_math,
    << FunctionDecl(S_add, {"Server"}, NoComment,
         << Field(<< "a" >>, S_i32), Field(<< "b" >>, S_i32) >>,
         << Field(<< "s","u","m" >>, S_i32) >>) >>,
    << >>, << >>)

Decl_util_foo ==
  NamespaceDecl(S_util,
    << FunctionDecl(S_foo_bar, {"Server"}, NoComment, << >>, << >>),
       FunctionDecl(S_fooBar, {"Client"}, NoComment, << >>, << >>) >>,
    << >>, << >>)

Catalog ==
  { Decl_svc_ping, Decl_svc_pong_util, Decl_svc_util_add, Decl_math_add, Decl_util_foo }

RECURSIVE WithLoc(_, _)
\* the declaration as the parser produces it at source position loc
WithLoc(decl, loc) ==
  [decl EXCEPT
     !.loc = loc,
     !.functions = [i \in 1..Len(decl.functions) |->
                      [decl.functions[i] EXCEPT !.loc = loc]],
     !.notifications = [i \in 1..Len(decl.notifications) |->
                          [decl.notifications[i] EXCEPT !.loc = loc]],
     !.namespaces = [i \in 1..Len(decl.namespaces) |->
                       WithLoc(decl.namespaces[i], loc)]]

\* the modules made of the declarations ds, a new module starting at every
\* position i with starts[i]
ModulesOf(ds, starts) ==
  LET n == Len(ds)
      first == { i \in 1..n : starts[i] }
      moduleOf(i) == Cardinality({ j \in first : j <= i })
      declOf(i) == i + 1 - (CHOOSE j \in first : j <= i /\ \A k \in first : k <= i => k <= j)
      count == Cardinality(first)
      members(m) == { i \in 1..n : moduleOf(i) = m }
  IN  [m \in 1..count |->
         Module(m,
           [d \in 1..Cardinality(members(m)) |->
              LET i == CHOOSE i \in members(m) : declOf(i) = d
              IN  WithLoc(ds[i], [module |-> m, decl |-> d])])]

\* every ordered list of modules with at most MaxDecls top-level declarations
ModuleLists ==
  UNION { { ModulesOf(ds, starts) :
              ds \in [1..n -> Catalog],
              starts \in { b \in [1..n -> BOOLEAN] : n > 0 => b[1] } }
          : n \in 0..MaxDecls }

-----------------------------------------------------------------------------
(* IndexMap: an insertion-ordered map, a sequence of entries with distinct  *)
(* keys                                                                     *)

IndexMap_new == << >>

\* position of key k, 0 when absent
IndexMap_index(m, k) ==
  IF \E i \in 1..Len(m) : m[i].k = k
  THEN CHOOSE i \in 1..Len(m) : m[i].k = k
  ELSE 0

IndexMap_contains(m, k) == IndexMap_index(m, k) # 0

IndexMap_get(m, k) == m[IndexMap_index(m, k)].v

\* an insert that moves an existing key to the end
IndexMap_insert_move_last(m, k, v) ==
  SelectSeq(m, LAMBDA e : e.k # k) \o << [k |-> k, v |-> v] >>

\* IndexMap::insert: an existing key keeps its position and takes the new
\* value, a new key is appended
IndexMap_insert(m, k, v) ==
  IF IndexMap_contains(m, k)
  THEN [m EXCEPT ![IndexMap_index(m, k)] = [k |-> k, v |-> v]]
  ELSE Append(m, [k |-> k, v |-> v])

IndexMap_keys(m) == [i \in 1..Len(m) |-> m[i].k]

IndexMap_values(m) == [i \in 1..Len(m) |-> m[i].v]

-----------------------------------------------------------------------------
(* Fun and Namespace                                                        *)

\* Fun::new keeping the dotted name as a single token
Fun_new_unsplit(decl, full_name) == [decl |-> decl, tokens |-> << full_name >>]

\* Fun::new
Fun_new(decl, full_name) == [decl |-> decl, tokens |-> split(full_name, ".")]

\* Fun::rpc_name with every segment upper-camel-cased
rpc_name_all_camel(fun) ==
  join([i \in 1..Len(fun.tokens) |-> to_camel_case(fun.tokens[i])], << "." >>)

\* Fun::rpc_name
rpc_name(fun) ==
  LET last == Len(fun.tokens)
  IN  join([i \in 1..Len(fun.tokens) |->
              IF i = last THEN to_camel_case(fun.tokens[i])
              ELSE to_mixed_case(fun.tokens[i])],
           << "." >>)

\* Fun::variant_name without the lowercasing
variant_name_keep_case(fun) == replace(rpc_name(fun), ".", "_")

\* Fun::variant_name without the replacement of the periods
variant_name_keep_dots(fun) == to_lowercase(rpc_name(fun))

\* Fun::variant_name
variant_name(fun) == to_lowercase(replace(rpc_name(fun), ".", "_"))

\* Fun::qualified_name
qualified_name(fun) == join(fun.tokens, << ":", ":" >>)

\* Fun::mod_name
mod_name(fun) == to_snake_case(fun.decl.name)

\* Fun::is_notification looking for another modifier
is_notification_client(fun) == "Client" \in fun.decl.modifiers

\* Fun::is_notification
is_notification(fun) == "Notification" \in fun.decl.modifiers

\* Namespace::new
Namespace_new(decl) == [decl |-> decl, children |-> IndexMap_new, funs |-> IndexMap_new]

\* Namespace::name
Namespace_name(ns) == ns.decl.name

RECURSIVE insert_funs(_, _, _, _)
\* the loop over decl.functions in Context::visit_ns
insert_funs(funs, prefix, functions, i) ==
  IF i > Len(functions) THEN funs
  ELSE LET decl == functions[i]
           ff == Fun_new(decl, prefix \o decl.name)
       IN  insert_funs(IndexMap_insert(funs, decl.name, ff), prefix, functions, i + 1)

RECURSIVE insert_children_unvisited(_, _, _, _)
\* the loop over decl.namespaces without the recursive visit of the child
insert_children_unvisited(children, prefix, namespaces, i) ==
  IF i > Len(namespaces) THEN children
  ELSE insert_children_unvisited(
         IndexMap_insert(children, namespaces[i].name, Namespace_new(namespaces[i])),
         prefix, namespaces, i + 1)

RECURSIVE Context_visit_ns(_, _)
RECURSIVE insert_children(_, _, _, _)
\* the loop over decl.namespaces in Context::visit_ns
insert_children(children, prefix, namespaces, i) ==
  IF i > Len(namespaces) THEN children
  ELSE LET decl == namespaces[i]
           child == Context_visit_ns(prefix, Namespace_new(decl))
       IN  insert_children(IndexMap_insert(children, decl.name, child),
                           prefix, namespaces, i + 1)

\* Context::visit_ns: the namespace with its funs and children filled in
Context_visit_ns(prefix, ns) ==
  LET decl == ns.decl
      prefix2 == prefix \o Namespace_name(ns) \o << "." >>
  IN  [ns EXCEPT
         !.funs = insert_funs(ns.funs, prefix2, decl.functions, 1),
         !.children = insert_children(ns.children, prefix2, decl.namespaces, 1)]

RECURSIVE merge_funs_front(_, _, _)
\* the loop over rhs.funs putting a new name in front of the existing ones
merge_funs_front(funs, rhs_funs, i) ==
  IF i > Len(rhs_funs) THEN funs
  ELSE merge_funs_front(
         IF IndexMap_contains(funs, rhs_funs[i].k)
         THEN IndexMap_insert(funs, rhs_funs[i].k, rhs_funs[i].v)
         ELSE << rhs_funs[i] >> \o funs,
         rhs_funs, i + 1)

RECURSIVE merge_funs_keep(_, _, _)
\* the loop over rhs.funs keeping the existing definition of a name
merge_funs_keep(funs, rhs_funs, i) ==
  IF i > Len(rhs_funs) THEN funs
  ELSE merge_funs_keep(
         IF IndexMap_contains(funs, rhs_funs[i].k) THEN funs
         ELSE IndexMap_insert(funs, rhs_funs[i].k, rhs_funs[i].v),
         rhs_funs, i + 1)

RECURSIVE merge_funs(_, _, _)
\* the loop over rhs.funs in Namespace::merge
merge_funs(funs, rhs_funs, i) ==
  IF i > Len(rhs_funs) THEN funs
  ELSE merge_funs(IndexMap_insert(funs, rhs_funs[i].k, rhs_funs[i].v), rhs_funs, i + 1)

RECURSIVE merge(_, _)
RECURSIVE merge_children_no_insert(_, _, _)
\* the loop over rhs.children without the else branch that inserts a new child
merge_children_no_insert(children, rhs_children, i) ==
  IF i > Len(rhs_children) THEN children
  ELSE LET k == rhs_children[i].k
           v == rhs_children[i].v
       IN  IF IndexMap_contains(children, k)
           THEN merge_children_no_insert(
                  [children EXCEPT ![IndexMap_index(children, k)].v =
                     merge(IndexMap_get(children, k), v)],
                  rhs_children, i + 1)
           ELSE merge_children_no_insert(children, rhs_children, i + 1)

RECURSIVE merge_children(_, _, _)
\* the loop over rhs.children in Namespace::merge
merge_children(children, rhs_children, i) ==
  IF i > Len(rhs_children) THEN children
  ELSE LET k == rhs_children[i].k
           v == rhs_children[i].v
       IN  IF IndexMap_contains(children, k)
           THEN merge_children(
                  [children EXCEPT ![IndexMap_index(children, k)].v =
                     merge(IndexMap_get(children, k), v)],
                  rhs_children, i + 1)
           ELSE merge_children(IndexMap_insert(children, k, v), rhs_children, i + 1)

\* Namespace::merge
merge(self, rhs) ==
  [self EXCEPT
     !.children = merge_children(self.children, rhs.children, 1),
     !.funs = merge_funs(self.funs, rhs.funs, 1)]

\* Context::visit_toplevel_ns: the namespaces map after visiting decl
visit_toplevel_ns(namespaces, decl) ==
  LET k == decl.name
      ns == Context_visit_ns(<< >>, Namespace_new(decl))
  IN  IF IndexMap_contains(namespaces, k)
      THEN [namespaces EXCEPT ![IndexMap_index(namespaces, k)].v =
              merge(IndexMap_get(namespaces, k), ns)]
      ELSE IndexMap_insert(namespaces, k, ns)

RECURSIVE Namespace_funs_children_only(_)
\* Namespace::funs without the chain of the namespace's own funs
Namespace_funs_children_only(ns) ==
  concat([i \in 1..Len(ns.children) |-> Namespace_funs_children_only(ns.children[i].v)])

RECURSIVE Namespace_funs_own_first(_)
\* Namespace::funs chaining the namespace's own funs before its children's
Namespace_funs_own_first(ns) ==
  IndexMap_values(ns.funs)
    \o concat([i \in 1..Len(ns.children) |-> Namespace_funs_own_first(ns.children[i].v)])

RECURSIVE Namespace_funs(_)
\* Namespace::funs: the Funs of the children, depth first, then its own
Namespace_funs(ns) ==
  concat([i \in 1..Len(ns.children) |-> Namespace_funs(ns.children[i].v)])
    \o IndexMap_values(ns.funs)

\* Context::all_funs
all_funs(namespaces) ==
  concat([i \in 1..Len(namespaces) |-> Namespace_funs(namespaces[i].v)])

\* Context::funs
funs_of_kind(namespaces, kind) ==
  LET want == (kind = "Notification")
      keep(x) == is_notification(x) = want
  IN  SelectSeq(all_funs(namespaces), keep)

-----------------------------------------------------------------------------
(* The artifact: the lines written through Output::write_indented, each     *)
(* with its indent, its format string and the values formatted into it.     *)
(* fun is a history field: the path of the Fun whose loop iteration wrote   *)
(* the line, << >> outside such a loop.                                     *)

INDENT_WIDTH == 4

\* ScopeLike::line with a literal
Ln(indent, text) == [indent |-> indent, fmt |-> text, args |-> << >>, fun |-> << >>]

\* ScopeLike::line(&format!(fmt, args...))
Lf(indent, fmt, args, fun) == [indent |-> indent, fmt |-> fmt, args |-> args, fun |-> fun]

\* ScopeLike::scope
scope(indent) == indent + INDENT_WIDTH

\* write_enum
write_enum(indent, kind, funs) ==
  LET s == scope(indent)
  IN  [i \in 1..Len(funs) |->
         Lf(s, "{}({}::{}),",
            << variant_name(funs[i]), qualified_name(funs[i]), kind >>,
            funs[i].tokens)]

\* codegen: the generated-file header
header_lines ==
  << Ln(0, "// This file is generated by lavish: DO NOT EDIT"),
     Ln(0, "// https://github.com/fasterthanlime/lavish"),
     Ln(0, ""),
     Ln(0, "// Kindly ask rustfmt not to reformat this file."),
     Ln(0, "#![cfg_attr(rustfmt, rustfmt_skip)]"),
     Ln(0, ""),
     Ln(0, "// Disable some lints, since this file is generated."),
     Ln(0, "#![allow(clippy::all)]"),
     Ln(0, "#![allow(unknown_lints)]"),
     Ln(0, "#![allow(unused)]"),
     Ln(0, "") >>

\* codegen: the attributes and the opening line of one union
enum_open(s, name) ==
  << Ln(s, ""),
     Ln(s, "#[derive(Serialize, Debug)]"),
     Ln(s, "#[serde(untagged)]"),
     Ln(s, "#[allow(non_camel_case_types, unused)]"),
     Lf(s, "pub enum {} {", << name >>, << >>) >>

\* codegen: the opening of mod __ and the three unions
enums_lines(namespaces) ==
  LET s == scope(0)
  IN  << Ln(0, "pub use __::*;"),
         Ln(0, ""),
         Ln(0, "mod __ {"),
         Ln(s, "// Notes: as of 2019-05-21, futures-preview is required"),
         Ln(s, "use futures::prelude::*;"),
         Ln(s, "use std::pin::Pin;"),
         Ln(s, "use std::sync::Arc;"),
         Ln(s, ""),
         Ln(s, "use lavish_rpc as rpc;"),
         Ln(s, "use lavish_rpc::serde_derive::*;"),
         Ln(s, "use lavish_rpc::erased_serde;") >>
      \o enum_open(s, S_Params)
      \o write_enum(s, S_Params, funs_of_kind(namespaces, "Request"))
      \o << Ln(s, "}") >>
      \o enum_open(s, S_Results)
      \o write_enum(s, S_Results, funs_of_kind(namespaces, "Request"))
      \o << Ln(s, "}") >>
      \o enum_open(s, S_NotificationParams)
      \o write_enum(s, S_Params, funs_of_kind(namespaces, "Notification"))
      \o << Ln(s, "}") >>

\* codegen: the type aliases and fn protocol
aliases_lines ==
  LET s == scope(0)
  IN  << Ln(s, ""),
         Ln(s, "pub type Message = rpc::Message<Params, NotificationParams, Results>;"),
         Ln(s, "pub type Handle = rpc::Handle<Params, NotificationParams, Results>;"),
         Ln(s, "pub type System = rpc::System<Params, NotificationParams, Results>;"),
         Ln(s, "pub type Protocol = rpc::Protocol<Params, NotificationParams, Results>;"),
         Ln(s, "pub type HandlerRet = Pin<Box<dyn Future<Output = Result<Results, rpc::Error>> + Send + 'static>>;"),
         Ln(s, ""),
         Ln(s, "pub fn protocol() -> Protocol {"),
         Ln(scope(s), "Protocol::new()"),
         Ln(s, "}") >>

\* codegen: the (strukt, side, kind) triples of the impl rpc::Atom loop
Atoms ==
  << [strukt |-> S_Params, side |-> S_Params, kind |-> "Request"],
     [strukt |-> S_Results, side |-> S_Results, kind |-> "Request"],
     [strukt |-> S_Params, side |-> S_NotificationParams, kind |-> "Notification"] >>

\* codegen: one iteration of the impl rpc::Atom loop
atom_lines(namespaces, atom) ==
  LET s == scope(0)
      s1 == scope(s)
      s2 == scope(s1)
      s3 == scope(s2)
      s4 == scope(s3)
      funs == funs_of_kind(namespaces, atom.kind)
  IN  << Ln(s, ""),
         Lf(s, "impl rpc::Atom for {} {", << atom.side >>, << >>),
         Ln(s1, "fn method(&self) -> &'static str {"),
         Ln(s2, "match self {") >>
      \o [i \in 1..Len(funs) |->
            Lf(s3, "{}::{}(_) => {:?},",
               << atom.side, variant_name(funs[i]), rpc_name(funs[i]) >>,
               funs[i].tokens)]
      \o << Ln(s2, "}"),
            Ln(s1, "}"),
            Ln(s1, ""),
            Ln(s1, "fn deserialize("),
            Ln(s2, "method: &str,"),
            Ln(s2, "de: &mut erased_serde::Deserializer,"),
            Ln(s1, ") -> erased_serde::Result<Self> {"),
            Ln(s2, "use erased_serde::deserialize as deser;"),
            Ln(s2, "use serde::de::Error;"),
            Ln(s2, ""),
            Ln(s2, "match method {") >>
      \o concat([i \in 1..Len(funs) |->
            << Lf(s3, "{:?} =>", << rpc_name(funs[i]) >>, funs[i].tokens),
               Lf(s4, "Ok({}::{}(deser::<{}::{}>(de)?)),",
                  << atom.side, variant_name(funs[i]), qualified_name(funs[i]),
                     atom.strukt >>,
                  funs[i].tokens) >>])
      \o << Ln(s3, "_ => Err(erased_serde::Error::custom(format!("),
            Ln(s4, "\"unknown method: {}\","),
            Ln(s4, "method,"),
            Ln(s3, "))),"),
            Ln(s2, "}"),
            Ln(s1, "}"),
            Ln(s, "}") >>

\* codegen: struct Call, the slot aliases and struct Handler
handler_lines(namespaces) ==
  LET s == scope(0)
      s1 == scope(s)
      funs == funs_of_kind(namespaces, "Request")
  IN  << Ln(s, ""),
         Ln(s, "pub struct Call<T, PP> {"),
         Ln(s1, "pub state: Arc<T>,"),
         Ln(s1, "pub handle: Handle,"),
         Ln(s1, "pub params: PP,"),
         Ln(s, "}"),
         Ln(s, ""),
         Ln(s, "pub type SlotFuture = "),
         Ln(s1, "Future<Output = Result<Results, rpc::Error>> + Send + 'static;"),
         Ln(s, ""),
         Ln(s, "pub type SlotReturn = Pin<Box<SlotFuture>>;"),
         Ln(s, ""),
         Ln(s, "pub type SlotFn<'a, T> = "),
         Ln(s1, "Fn(Arc<T>, Handle, Params) -> SlotReturn + 'a + Send + Sync;"),
         Ln(s, ""),
         Ln(s, "pub type Slot<'a, T> = Option<Box<SlotFn<'a, T>>>;"),
         Ln(s, ""),
         Ln(s, "pub struct Handler<'a, T> {"),
         Ln(s1, "state: Arc<T>,") >>
      \o [i \in 1..Len(funs) |->
            Lf(s1, "{}: Slot<'a, T>,", << variant_name(funs[i]) >>, funs[i].tokens)]
      \o << Ln(s, "}") >>

\* str::repeat
repeat(str, n) == concat([i \in 1..n |-> str])

\* ScopeLike::comment
comment_lines(indent, comment, fun) ==
  [i \in 1..Len(comment) |-> Lf(indent, "// {}", << comment[i] >>, fun)]

\* ScopeLike::def_struct, its body one line per field
def_struct(indent, name, fields, fun) ==
  << Lf(indent, "#[derive(Serialize, Deserialize, Debug)]", << >>, fun),
     Lf(indent, "pub struct {} {", << name >>, fun) >>
  \o [i \in 1..Len(fields) |->
        Lf(scope(indent), "pub {}: {},", << fields[i].name, fields[i].typ >>, fun)]
  \o << Lf(indent, "}", << >>, fun) >>

\* visit_ns: the write_downgrade closure
write_downgrade(indent, side, fun) ==
  LET s1 == scope(indent)
      s2 == scope(s1)
      s3 == scope(s2)
  IN  << Lf(s1, "pub fn downgrade(p: __::{}) -> Option<Self> {", << side >>, fun.tokens),
         Lf(s2, "match p {", << >>, fun.tokens),
         Lf(s3, "__::{}::{}(p) => Some(p),", << side, variant_name(fun) >>, fun.tokens),
         Lf(s3, "_ => None,", << >>, fun.tokens),
         Lf(s2, "}", << >>, fun.tokens),
         Lf(s1, "}", << >>, fun.tokens) >>

\* visit_ns: the body of the loop over ns.funs, the leaf module of one Fun;
\* indent is the indent of the namespace's inner scope
leaf_lines(indent, fun, depth) ==
  LET s == scope(indent)
      s1 == scope(s)
      s2 == scope(s1)
      t == fun.tokens
      super_ref == repeat(<< "s","u","p","e","r",":",":" >>, depth + 2)
  IN  comment_lines(indent, fun.decl.comment, t)
      \o << Lf(indent, "pub mod {} {", << mod_name(fun) >>, t),
            Lf(s, "use futures::prelude::*;", << >>, t),
            Lf(s, "use lavish_rpc::serde_derive::*;", << >>, t),
            Lf(s, "use {}__;", << super_ref >>, t),
            Lf(s, "", << >>, t) >>
      \o def_struct(s, S_Params, fun.decl.params, t)
      \o << Lf(s, "", << >>, t),
            Lf(s, "impl Params {", << >>, t) >>
      \o write_downgrade(s, IF is_notification(fun) THEN S_NotificationParams
                            ELSE S_Params, fun)
      \o << Lf(s, "}", << >>, t) >>
      \o (IF ~is_notification(fun) THEN
            << Lf(s, "", << >>, t) >>
            \o def_struct(s, S_Results, fun.decl.results, t)
            \o << Lf(s, "", << >>, t),
                  Lf(s, "impl Results {", << >>, t) >>
            \o write_downgrade(s, S_Results, fun)
            \o << Lf(s, "}", << >>, t),
                  Lf(s, "", << >>, t),
                  Lf(s, "pub async fn call(h: &__::Handle, p: Params) -> Result<Results, lavish_rpc::Error> {", << >>, t),
                  Lf(s1, "h.call(", << >>, t),
                  Lf(s2, "__::Params::{}(p),", << variant_name(fun) >>, t),
                  Lf(s2, "Results::downgrade,", << >>, t),
                  Lf(s1, ").await", << >>, t),
                  Lf(s, "}", << >>, t),
                  Lf(s, "", << >>, t),
                  Lf(s, "pub fn register<'a, T, F, FT>(h: &mut __::Handler<'a, T>, f: F)", << >>, t),
                  Lf(s, "where", << >>, t),
                  Lf(s1, "F: Fn(__::Call<T, Params>) -> FT + Sync + Send + 'a,", << >>, t),
                  Lf(s1, "FT: Future<Output = Result<Results, lavish_rpc::Error>> + Send + 'static,", << >>, t),
                  Lf(s, "{", << >>, t),
                  Lf(s1, "unimplemented!()", << >>, t),
                  Lf(s, "}", << >>, t) >>
          ELSE << >>)
      \o << Lf(indent, "}", << >>, t),
            Lf(indent, "", << >>, t) >>

RECURSIVE visit_ns(_, _, _)
\* visit_ns: the module of one namespace, its children first, then its Funs
visit_ns(indent, ns, depth) ==
  LET s == scope(indent)
  IN  << Lf(indent, "pub mod {} {", << Namespace_name(ns) >>, << >>) >>
      \o concat([i \in 1..Len(ns.children) |-> visit_ns(s, ns.children[i].v, depth + 1)])
      \o concat([i \in 1..Len(ns.funs) |-> leaf_lines(s, ns.funs[i].v, depth)])
      \o << Ln(indent, "}"),
            Ln(indent, "") >>

-----------------------------------------------------------------------------
(* codegen as a state machine                                               *)

VARIABLES
  modules,     \* the parsed modules handed to codegen
  pc,          \* the position of codegen
  mi,          \* index of the module the fold is at
  di,          \* index of the next top-level declaration in that module
  namespaces,  \* Context::namespaces
  ai,          \* index of the next impl rpc::Atom to write
  ni,          \* index of the next top-level namespace to emit
  out,         \* the lines written to the output file
  result,      \* what codegen returned: "Running", "Ok", "Err", "Panic"
  stack,       \* output.rs: the Scopes and Lists alive, innermost last
  text,        \* output.rs: the characters handed to the underlying writer
  ops,         \* output.rs: the number of writing calls made so far
  ir,          \* lang.rs: the builder value under construction
  irpc,        \* lang.rs: "build", the position of Display::fmt, then "rendered"
  workspace,   \* rust/mod.rs: the members and the target's wrapper flag
  wpc,         \* rust/mod.rs: the position of emit_workspace
  wi,          \* rust/mod.rs: index of the member emit_workspace is at
  files,       \* rust/mod.rs: the files created, path and lines, in order
  wresult      \* rust/mod.rs: what emit_workspace returned

codegenVars == << modules, pc, mi, di, namespaces, ai, ni, out, result >>

scopeVars == << stack, text, ops >>

irVars == << ir, irpc >>

workspaceVars == << workspace, wpc, wi, files, wresult >>

vars == << codegenVars, scopeVars, irVars, workspaceVars >>

\* the text-emission layer before any Scope is made
ScopeIdle == stack = << >> /\ text = << >> /\ ops = 0

\* no builder value is under construction
IrIdle == ir = [kind |-> "None"] /\ irpc = "idle"

\* emit_workspace is not running
WorkspaceIdle ==
  /\ workspace = [members |-> << >>, wrapper |-> "None"]
  /\ wpc = "idle"
  /\ wi = 1
  /\ files = << >>
  /\ wresult = "Running"

Init ==
  /\ modules \in ModuleLists
  /\ pc = "start"
  /\ mi = 1
  /\ di = 1
  /\ namespaces = IndexMap_new
  /\ ai = 1
  /\ ni = 1
  /\ out = << >>
  /\ result = "Running"
  /\ ScopeIdle
  /\ IrIdle
  /\ WorkspaceIdle

\* codegen: create_dir_all(...)? and File::create(...).unwrap()
CreateOutput ==
  /\ pc = "start"
  /\ \E io \in { "ok", "dir_error", "file_error" } :
       \/ /\ io = "dir_error"
          /\ pc' = "done"
          /\ result' = "Err"
       \/ /\ io = "file_error"
          /\ pc' = "done"
          /\ result' = "Panic"
       \/ /\ io = "ok"
          /\ pc' = "visit"
          /\ result' = result
  /\ UNCHANGED << modules, mi, di, namespaces, ai, ni, out >>
  /\ UNCHANGED << scopeVars, irVars, workspaceVars >>

\* the fold still has a declaration to visit
MoreDecls == mi <= Len(modules)

\* codegen: one iteration of the loops over modules and their namespaces
VisitToplevelNs ==
  /\ pc = "visit"
  /\ MoreDecls
  /\ IF di <= Len(modules[mi].namespaces)
     THEN /\ namespaces' = visit_toplevel_ns(namespaces, modules[mi].namespaces[di])
          /\ IF di < Len(modules[mi].namespaces)
             THEN di' = di + 1 /\ mi' = mi
             ELSE di' = 1 /\ mi' = mi + 1
     ELSE /\ namespaces' = namespaces
          /\ di' = 1
          /\ mi' = mi + 1
  /\ UNCHANGED << modules, pc, ai, ni, out, result >>
  /\ UNCHANGED << scopeVars, irVars, workspaceVars >>

\* codegen: the header, once every module is folded
WriteHeader ==
  /\ pc = "visit"
  /\ ~MoreDecls
  /\ out' = out \o header_lines
  /\ pc' = "enums"
  /\ UNCHANGED << modules, mi, di, namespaces, ai, ni, result >>
  /\ UNCHANGED << scopeVars, irVars, workspaceVars >>

\* codegen writing each dispatch implementation together with the unions,
\* before the type aliases
WriteEnums_with_atoms ==
  /\ pc = "enums"
  /\ out' = out \o enums_lines(namespaces)
                \o concat([a \in 1..Len(Atoms) |-> atom_lines(namespaces, Atoms[a])])
  /\ pc' = "aliases"
  /\ UNCHANGED << modules, mi, di, namespaces, ai, ni, result >>
  /\ UNCHANGED << scopeVars, irVars, workspaceVars >>

\* codegen: mod __ and the Params, Results and NotificationParams unions
WriteEnums ==
  /\ pc = "enums"
  /\ out' = out \o enums_lines(namespaces)
  /\ pc' = "aliases"
  /\ UNCHANGED << modules, mi, di, namespaces, ai, ni, result >>
  /\ UNCHANGED << scopeVars, irVars, workspaceVars >>

\* codegen: the type aliases and fn protocol
WriteAliases ==
  /\ pc = "aliases"
  /\ out' = out \o aliases_lines
  /\ pc' = "atoms"
  /\ UNCHANGED << modules, mi, di, namespaces, ai, ni, result >>
  /\ UNCHANGED << scopeVars, irVars, workspaceVars >>

\* codegen: one impl rpc::Atom
WriteAtom ==
  /\ pc = "atoms"
  /\ ai <= Len(Atoms)
  /\ out' = out \o atom_lines(namespaces, Atoms[ai])
  /\ ai' = ai + 1
  /\ UNCHANGED << modules, pc, mi, di, namespaces, ni, result >>
  /\ UNCHANGED << scopeVars, irVars, workspaceVars >>

\* codegen: struct Call, the slot aliases and struct Handler
WriteHandler ==
  /\ pc = "atoms"
  /\ ai > Len(Atoms)
  /\ out' = out \o handler_lines(namespaces)
  /\ pc' = "namespaces"
  /\ UNCHANGED << modules, mi, di, namespaces, ai, ni, result >>
  /\ UNCHANGED << scopeVars, irVars, workspaceVars >>

\* codegen: one iteration of the loop over root.namespaces
VisitNamespace ==
  /\ pc = "namespaces"
  /\ ni <= Len(namespaces)
  /\ out' = out \o << Ln(scope(0), "") >> \o visit_ns(scope(0), namespaces[ni].v, 1)
  /\ ni' = ni + 1
  /\ UNCHANGED << modules, pc, mi, di, namespaces, ai, result >>
  /\ UNCHANGED << scopeVars, irVars, workspaceVars >>

\* codegen: the closing brace of mod __ and Ok(())
Finish ==
  /\ pc = "namespaces"
  /\ ni > Len(namespaces)
  /\ out' = Append(out, Ln(0, "}"))
  /\ pc' = "done"
  /\ result' = "Ok"
  /\ UNCHANGED << modules, mi, di, namespaces, ai, ni >>
  /\ UNCHANGED << scopeVars, irVars, workspaceVars >>

Next ==
  \/ CreateOutput
  \/ VisitToplevelNs
  \/ WriteHeader
  \/ WriteEnums
  \/ WriteAliases
  \/ WriteAtom
  \/ WriteHandler
  \/ VisitNamespace
  \/ Finish

Spec == Init /\ [][Next]_vars

-----------------------------------------------------------------------------
(* Vocabulary of the properties                                             *)

\* codegen has folded every module and written the whole artifact
Emitted == pc = "done" /\ result = "Ok"

\* the top-level declarations of a list of modules, in order
DeclsOf(ms) == concat([i \in 1..Len(ms) |-> ms[i].namespaces])

RECURSIVE fold_decls(_, _, _)
fold_decls(nss, decls, i) ==
  IF i > Len(decls) THEN nss
  ELSE fold_decls(visit_toplevel_ns(nss, decls[i]), decls, i + 1)

\* the forest the fold of codegen builds from a list of modules
Forest(ms) == fold_decls(IndexMap_new, DeclsOf(ms), 1)

\* the merge of two forests: Namespace::merge's merge of two child maps
MergeForest(lhs, rhs) == merge_children(lhs, rhs, 1)

RECURSIVE DeclaredFuns(_, _)
\* the functions a namespace declaration declares, each with its path (the
\* names of the enclosing namespaces from the root, then its own name)
DeclaredFuns(decl, ancestors) ==
  LET here == Append(ancestors, decl.name)
  IN  { [tokens |-> Append(here, decl.functions[i].name), decl |-> decl.functions[i]] :
          i \in 1..Len(decl.functions) }
      \cup UNION { DeclaredFuns(decl.namespaces[i], here) : i \in 1..Len(decl.namespaces) }

\* the functions module m declares
DeclaredIn(m) == UNION { DeclaredFuns(m.namespaces[i], << >>) : i \in 1..Len(m.namespaces) }

PathsIn(m) == { f.tokens : f \in DeclaredIn(m) }

DeclaredPaths == UNION { PathsIn(modules[m]) : m \in 1..Len(modules) }

\* the modules of the input that declare path p
Declaring(p) == { m \in 1..Len(modules) : p \in PathsIn(modules[m]) }

Max(S) == CHOOSE x \in S : \A y \in S : y <= x

RECURSIVE FunsIn(_)
\* the Funs held anywhere in a forest
FunsIn(nss) ==
  UNION { Range(IndexMap_values(nss[i].v.funs)) \cup FunsIn(nss[i].v.children) :
            i \in 1..Len(nss) }

\* the Funs of the merged forest
ForestFuns == FunsIn(namespaces)

RECURSIVE Unordered(_)
\* a forest without its sibling order: the names, the Funs and the child
\* forests as sets
Unordered(nss) ==
  { [name |-> nss[i].k,
     declared |-> Namespace_name(nss[i].v),
     funs |-> Range(nss[i].v.funs),
     children |-> Unordered(nss[i].v.children)] : i \in 1..Len(nss) }

RECURSIVE DistinctKeys(_)
\* no two siblings of a forest share a name, at any depth
DistinctKeys(nss) ==
  /\ \A i, j \in 1..Len(nss) : nss[i].k = nss[j].k => i = j
  /\ \A i \in 1..Len(nss) :
       /\ \A a, b \in 1..Len(nss[i].v.funs) :
            nss[i].v.funs[a].k = nss[i].v.funs[b].k => a = b
       /\ DistinctKeys(nss[i].v.children)

-----------------------------------------------------------------------------
(* The merger                                                               *)

\* C1: for every cut of the module list into three consecutive lists A, B, C,
\* merging the forests of A and B and then the forest of C gives the same
\* forest (names, definitions, sibling order) as merging the forest of A with
\* the merge of the forests of B and C; both are the forest codegen folded.
C1_MergeAssociative ==
  Emitted =>
    \A a \in 0..Len(modules) : \A b \in a..Len(modules) :
      LET A == Forest(SubSeq(modules, 1, a))
          B == Forest(SubSeq(modules, a + 1, b))
          C == Forest(SubSeq(modules, b + 1, Len(modules)))
      IN  /\ MergeForest(MergeForest(A, B), C) = MergeForest(A, MergeForest(B, C))
          /\ MergeForest(MergeForest(A, B), C) = namespaces

\* three modules that all contribute to namespace svc, two of them declaring
\* the same function path, have been folded
C1_Witness ==
  /\ Emitted
  /\ Len(modules) = 3
  /\ \A m \in 1..3 : \E p \in PathsIn(modules[m]) : p[1] = S_svc
  /\ \E p \in DeclaredPaths : Cardinality(Declaring(p)) >= 2
  /\ \E i \in 1..Len(namespaces) : Len(namespaces[i].v.funs) = 3

\* C2: a path declared by several modules holds, in the merged forest, a
\* definition of the last module declaring it, and codegen goes on to finish
\* with Ok: the collision stops nothing.
C2_LastModuleWins ==
  /\ Emitted =>
       \A p \in DeclaredPaths :
         Cardinality(Declaring(p)) > 1 =>
           /\ Cardinality({ f \in ForestFuns : f.tokens = p }) = 1
           /\ \A f \in ForestFuns :
                f.tokens = p =>
                  /\ f.decl.loc.module = Max(Declaring(p))
                  /\ [tokens |-> p, decl |-> f.decl] \in DeclaredIn(modules[Max(Declaring(p))])
  /\ (\E p \in DeclaredPaths : Cardinality(Declaring(p)) > 1) =>
       /\ pc \notin { "start", "done" } => result = "Running"
       /\ (pc = "done" /\ ~MoreDecls) => result = "Ok"

\* svc.util.echo is declared as a request by module 1 and as a notification
\* by module 2, and the artifact is written
C2_Witness ==
  /\ Emitted
  /\ Len(modules) >= 2
  /\ \E f \in DeclaredIn(modules[1]) : \E g \in DeclaredIn(modules[2]) :
       /\ f.tokens = g.tokens
       /\ f.decl.modifiers # g.decl.modifiers
       /\ \E h \in ForestFuns : h.tokens = g.tokens /\ h.decl = g.decl

\* the two modules of the input declare no common function path
TwoDisjointModules ==
  /\ Len(modules) = 2
  /\ PathsIn(modules[1]) \cap PathsIn(modules[2]) = {}

C4_PathsPreserved ==
  Emitted =>
    /\ { f.tokens : f \in ForestFuns } = DeclaredPaths
    /\ Len(all_funs(namespaces)) = Cardinality(DeclaredPaths)
    /\ DistinctKeys(namespaces)

\* two modules each declare namespace svc, one with ping and one with pong,
\* and the forest holds one svc with both
C4_Witness ==
  /\ Emitted
  /\ Len(modules) = 2
  /\ << S_svc, S_ping >> \in PathsIn(modules[1])
  /\ << S_svc, S_pong >> \in PathsIn(modules[2])
  /\ Len(namespaces) = 1
  /\ { S_ping, S_pong } \subseteq Range(IndexMap_keys(namespaces[1].v.funs))

-----------------------------------------------------------------------------
(* The naming engine, read off the artifact                                 *)

\* the lines of the artifact written with format string fmt
LinesOf(fmt) == { i \in 1..Len(out) : out[i].fmt = fmt }

\* the arms of fn method: side, variant identifier, wire name
ArmLines == LinesOf("{}::{}(_) => {:?},")

\* the arms of fn deserialize: wire name
DeserLines == LinesOf("{:?} =>")

\* the variants of the unions: variant identifier, type path, record name
VariantLines == LinesOf("{}({}::{}),")

\* the opening lines of the modules
ModLines == LinesOf("pub mod {} {")

\* the wire name a path gets: every segment but the last in lower camel case,
\* joined by periods, then a period and the last segment in upper camel case
WireNameOf(t) ==
  join([i \in 1..(Len(t) - 1) |-> to_mixed_case(t[i])], << "." >>)
    \o << "." >> \o to_camel_case(t[Len(t)])

\* a string with every period replaced by an underscore and every character
\* lowercased
LowerUnderscore(w) ==
  [j \in 1..Len(w) |-> IF w[j] = "." THEN "_" ELSE char_to_lowercase(w[j])]

S_math_Add == << "m","a","t","h",".","A","d","d" >>

S_math_add == << "m","a","t","h","_","a","d","d" >>

S_svc_util_Echo == << "s","v","c",".","u","t","i","l",".","E","c","h","o" >>

S_svc_util_echo_dotted == << "s","v","c",".","u","t","i","l",".","e","c","h","o" >>

S_svc_util_echo == << "s","v","c","_","u","t","i","l","_","e","c","h","o" >>

\* C5: every wire name written (the arms of method and of deserialize) is the
\* path's segments but the last in lower camel case joined by periods, then a
\* period and the last segment in upper camel case; every Fun has such arms.
C5_WireName ==
  Emitted =>
    /\ \A i \in ArmLines : out[i].args[3] = WireNameOf(out[i].fun)
    /\ \A i \in DeserLines : out[i].args[1] = WireNameOf(out[i].fun)
    /\ \A f \in ForestFuns :
         /\ \E i \in ArmLines : out[i].fun = f.tokens
         /\ \E i \in DeserLines : out[i].fun = f.tokens

\* the arms of svc.util.fooBar, written "svc.util.FooBar", are in the artifact
C5_Witness ==
  /\ Emitted
  /\ \E i \in ArmLines :
       /\ out[i].fun = << S_svc, S_util, S_fooBar >>
       /\ out[i].args[3] = << "s","v","c",".","u","t","i","l",".","F","o","o","B","a","r" >>

\* the arms written for the Fun at path t
ArmsOf(t) == { i \in ArmLines : out[i].fun = t }

\* C6 as stated: math.add gets the wire name "add" and the variant add.
C6_MathAddBareName ==
  Emitted =>
    \A i \in ArmsOf(<< S_math, S_add >>) :
      /\ out[i].args[3] = S_add
      /\ out[i].args[2] = S_add

\* C6 amended: math.add gets the wire name "math.Add" and the variant
\* math_add, in the Params and Results unions.
C6_MathAdd ==
  Emitted =>
    /\ \A i \in ArmsOf(<< S_math, S_add >>) :
         /\ out[i].args[3] = S_math_Add
         /\ out[i].args[2] = S_math_add
         /\ out[i].args[1] \in { S_Params, S_Results }
    /\ << S_math, S_add >> \in DeclaredPaths => ArmsOf(<< S_math, S_add >>) # {}

\* the request add(a: i32, b: i32) -> (sum: i32) of namespace math is in the
\* forest and its arms are written
C6_Witness ==
  /\ Emitted
  /\ ArmsOf(<< S_math, S_add >>) # {}
  /\ \E f \in ForestFuns :
       /\ f.tokens = << S_math, S_add >>
       /\ ~is_notification(f)
       /\ Len(f.decl.params) = 2
       /\ Len(f.decl.results) = 1

\* C7 as stated: svc.util.echo gets the wire name "svc.util.echo" and the
\* variant svc_util_echo.
C7_NestedLowerCase ==
  Emitted =>
    \A i \in ArmsOf(<< S_svc, S_util, S_echo >>) :
      /\ out[i].args[3] = S_svc_util_echo_dotted
      /\ out[i].args[2] = S_svc_util_echo

\* C7 amended: svc.util.echo gets the wire name "svc.util.Echo" and the
\* variant svc_util_echo.
C7_Nested ==
  Emitted =>
    /\ \A i \in ArmsOf(<< S_svc, S_util, S_echo >>) :
         /\ out[i].args[3] = S_svc_util_Echo
         /\ out[i].args[2] = S_svc_util_echo
    /\ << S_svc, S_util, S_echo >> \in DeclaredPaths =>
         ArmsOf(<< S_svc, S_util, S_echo >>) # {}

\* the arms of svc.util.echo are written
C7_Witness ==
  /\ Emitted
  /\ ArmsOf(<< S_svc, S_util, S_echo >>) # {}

\* C8: the variant identifier written in an arm is the wire name of the same
\* arm with periods replaced by underscores and every character lowercased,
\* and the unions name the Fun by the same identifier.
C8_VariantName ==
  Emitted =>
    /\ \A i \in ArmLines : out[i].args[2] = LowerUnderscore(out[i].args[3])
    /\ \A i \in VariantLines : \A j \in ArmLines :
         out[i].fun = out[j].fun => out[i].args[1] = out[j].args[2]

\* an arm whose wire name has a period and an upper-case letter is written
C8_Witness ==
  /\ Emitted
  /\ \E i \in ArmLines :
       /\ "." \in Range(out[i].args[3])
       /\ \E j \in 1..Len(out[i].args[3]) : is_uppercase(out[i].args[3][j])
       /\ out[i].args[2] # out[i].args[3]
       /\ \E k \in VariantLines : out[k].fun = out[i].fun

\* C9: two Funs of the forest with distinct paths never share a wire name or
\* a variant identifier.
C9_NoNameCollision ==
  Emitted =>
    /\ \A i, j \in ArmLines :
         out[i].fun # out[j].fun =>
           /\ out[i].args[3] # out[j].args[3]
           /\ out[i].args[2] # out[j].args[2]
    /\ \A f, g \in ForestFuns :
         f.tokens # g.tokens =>
           /\ rpc_name(f) # rpc_name(g)
           /\ variant_name(f) # variant_name(g)

-----------------------------------------------------------------------------
(* The shape of the artifact                                                *)

\* the union a variant line belongs to: the name on the last enum opening
\* line before it
EnumOf(i) ==
  LET opened == { k \in 1..i : out[k].fmt = "pub enum {} {" }
  IN  out[Max(opened)].args[1]

\* the number of variants the union named enum holds for the Fun at path t
VariantCount(t, enum) ==
  Cardinality({ i \in VariantLines : out[i].fun = t /\ EnumOf(i) = enum })

\* the number of leaf modules opened for the Fun at path t
LeafCount(t) == Cardinality({ i \in ModLines : out[i].fun = t })

\* C10: in the finished artifact every Fun of the forest has one leaf module,
\* a request Fun one variant in Params and one in Results and none in
\* NotificationParams, a notification Fun one in NotificationParams and none
\* in Params and Results.
C10_OneLeafOneVariant ==
  Emitted =>
    \A f \in ForestFuns :
      LET req == IF is_notification(f) THEN 0 ELSE 1
      IN  /\ LeafCount(f.tokens) = 1
          /\ VariantCount(f.tokens, S_Params) = req
          /\ VariantCount(f.tokens, S_Results) = req
          /\ VariantCount(f.tokens, S_NotificationParams) = 1 - req

\* the artifact of a forest with a request and a notification, one of them in
\* a nested namespace, is written
C10_Witness ==
  /\ Emitted
  /\ \E f, g \in ForestFuns :
       /\ is_notification(f)
       /\ ~is_notification(g)
       /\ Len(f.tokens) = 3
       /\ VariantCount(f.tokens, S_NotificationParams) = 1
       /\ VariantCount(g.tokens, S_Params) = 1
       /\ LeafCount(f.tokens) = 1

\* the leaf modules opened: the module lines written in the loop of a Fun
LeafLines == { i \in ModLines : out[i].fun # << >> }

\* the namespace a leaf module is written into: the path of its Fun without
\* the Fun's own name
EnclosingOf(i) == SubSeq(out[i].fun, 1, Len(out[i].fun) - 1)

\* C11: no two leaf modules of distinct Funs are opened under the same module
\* identifier inside the same enclosing namespace module.
C11_LeafModulesDistinct ==
  Emitted =>
    \A i, j \in LeafLines :
      (out[i].fun # out[j].fun /\ EnclosingOf(i) = EnclosingOf(j)) =>
        out[i].args[1] # out[j].args[1]

-----------------------------------------------------------------------------
(* The dispatch the artifact holds, as the generated match expressions      *)
(* compute it: the first arm that matches is taken                          *)

\* the opening lines of the impl rpc::Atom blocks
ImplLines == LinesOf("impl rpc::Atom for {} {")

\* the lines of the impl rpc::Atom block of the union named side
ImplBlockOf(side) ==
  { i \in 1..Len(out) :
      \E k \in ImplLines :
        /\ out[k].args[1] = side
        /\ k < i
        /\ \A k2 \in ImplLines : k2 > k => i < k2 }

\* generated fn deserialize, given the deserialize arms of one union and a
\* wire name: the line of the variant built by the first arm for that name, 0
\* when only the `_` arm matches and the unknown-method error is returned
DeserializeOf(arms, method) ==
  LET matching == { i \in arms : out[i].args[1] = method }
  IN  IF matching = {} THEN 0
      ELSE (CHOOSE i \in matching : \A j \in matching : i <= j) + 1

\* generated fn method, given the method arms of one union and a variant
\* identifier: the wire name of the first arm for that variant
MethodOf(arms, variant) ==
  LET matching == { i \in arms : out[i].args[2] = variant }
  IN  out[CHOOSE i \in matching : \A j \in matching : i <= j].args[3]

\* the Funs of the forest of one message class
FunsOfClass(kind) ==
  { f \in ForestFuns : is_notification(f) <=> (kind = "Notification") }

\* the wire names the dispatch is asked for: those of every Fun of the forest
\* and one that no Fun has
ProbedMethods == { WireNameOf(f.tokens) : f \in ForestFuns } \cup { S_ping }

\* C12: for each union, deserialize selects for the wire name of a Fun of the
\* union's class the variant of that Fun, with the Fun's own record type, and
\* returns the unknown-method error exactly for the names no Fun of the class
\* has; method maps the variant of every Fun to the Fun's wire name.
C12_Dispatch ==
  Emitted =>
    \A a \in 1..Len(Atoms) :
      LET side == Atoms[a].side
          class == FunsOfClass(Atoms[a].kind)
          block == ImplBlockOf(side)
          deser == DeserLines \cap block
          meth == ArmLines \cap block
      IN  /\ \A f \in class :
               LET sel == DeserializeOf(deser, WireNameOf(f.tokens))
               IN  /\ sel # 0
                   /\ out[sel].fun = f.tokens
                   /\ out[sel].args[1] = side
                   /\ out[sel].args[3] = join(f.tokens, << ":", ":" >>)
                   /\ out[sel].args[4] = Atoms[a].strukt
          /\ \A m \in ProbedMethods :
               DeserializeOf(deser, m) = 0 <=>
                 ~ \E f \in class : WireNameOf(f.tokens) = m
          /\ \A i \in VariantLines :
               EnumOf(i) = side =>
                 MethodOf(meth, out[i].args[1]) = WireNameOf(out[i].fun)

-----------------------------------------------------------------------------
(* The leaf modules                                                         *)

\* the number of lines of the leaf module of the Fun at path t written with
\* format string fmt and values args
LeafLineCount(t, fmt, args) ==
  Cardinality({ i \in LinesOf(fmt) : out[i].fun = t /\ out[i].args = args })

\* the unions the downgrade accessors of the leaf module of the Fun at path t
\* are written against
DowngradeSides(t) ==
  { out[i].args[1] :
      i \in { k \in LinesOf("pub fn downgrade(p: __::{}) -> Option<Self> {") :
                out[k].fun = t } }

\* the declaration of a Fun carries the notification modifier
DeclaredNotification(f) == \E m \in f.decl.modifiers : m = "Notification"

\* C13: the leaf module of a notification Fun holds the Params record and one
\* downgrade accessor, against NotificationParams, and no Results record, no
\* impl Results, no call helper and no register helper; the leaf module of a
\* request Fun holds each of these once, with the accessors against Params
\* and Results.
C13_NotificationLeaf ==
  Emitted =>
    \A f \in ForestFuns :
      LET t == f.tokens
          req == IF DeclaredNotification(f) THEN 0 ELSE 1
      IN  /\ LeafLineCount(t, "pub struct {} {", << S_Params >>) = 1
          /\ LeafLineCount(t, "impl Params {", << >>) = 1
          /\ LeafLineCount(t, "pub struct {} {", << S_Results >>) = req
          /\ LeafLineCount(t, "impl Results {", << >>) = req
          /\ LeafLineCount(t, "pub async fn call(h: &__::Handle, p: Params) -> Result<Results, lavish_rpc::Error> {", << >>) = req
          /\ LeafLineCount(t, "pub fn register<'a, T, F, FT>(h: &mut __::Handler<'a, T>, f: F)", << >>) = req
          /\ DowngradeSides(t) = IF req = 0 THEN { S_NotificationParams }
                                 ELSE { S_Params, S_Results }

\* the artifact holds the leaf module of a notification Fun, with its Params
\* record, and the leaf module of a request Fun, with its call helper
C13_Witness ==
  /\ Emitted
  /\ \E f, g \in ForestFuns :
       /\ DeclaredNotification(f)
       /\ ~DeclaredNotification(g)
       /\ LeafLineCount(f.tokens, "pub struct {} {", << S_Params >>) = 1
       /\ DowngradeSides(f.tokens) = { S_NotificationParams }
       /\ LeafLineCount(g.tokens, "pub async fn call(h: &__::Handle, p: Params) -> Result<Results, lavish_rpc::Error> {", << >>) = 1

\* the paths of the Funs that wrote the lines of the set S, in the order of
\* the lines in the artifact
FunsInOrder(S) ==
  LET picked == SelectSeq([i \in 1..Len(out) |-> i], LAMBDA i : i \in S)
  IN  [k \in 1..Len(picked) |-> out[picked[k]].fun]

\* the leaf modules of the Funs of one message class
LeafLinesOfClass(kind) ==
  { i \in LeafLines : \E f \in FunsOfClass(kind) : f.tokens = out[i].fun }

\* the artifact codegen writes for a list of modules
ArtifactOf(ms) ==
  LET forest == Forest(ms)
  IN  header_lines
      \o enums_lines(forest)
      \o aliases_lines
      \o concat([a \in 1..Len(Atoms) |-> atom_lines(forest, Atoms[a])])
      \o handler_lines(forest)
      \o concat([n \in 1..Len(forest) |->
                   << Ln(scope(0), "") >> \o visit_ns(scope(0), forest[n].v, 1)])
      \o << Ln(0, "}") >>

\* C14: in each union the Funs listed as variants come in the order in which
\* the leaf modules of the Funs of the union's class are written, and the
\* finished artifact is a function of the ordered module list alone.
C14_SameOrder ==
  Emitted =>
    /\ \A a \in 1..Len(Atoms) :
         FunsInOrder({ i \in VariantLines : EnumOf(i) = Atoms[a].side })
           = FunsInOrder(LeafLinesOfClass(Atoms[a].kind))
    /\ out = ArtifactOf(modules)

\* the artifact of a forest in which a namespace holds a Fun of its own and a
\* child namespace with a Fun of the same class is written
C14_Witness ==
  /\ Emitted
  /\ \E i, j \in LeafLines :
       /\ Len(out[i].fun) = 2
       /\ Len(out[j].fun) = 3
       /\ out[j].fun[1] = out[i].fun[1]
       /\ \E k \in VariantLines : out[k].fun = out[i].fun /\ EnumOf(k) = S_Params
       /\ \E k \in VariantLines : out[k].fun = out[j].fun /\ EnumOf(k) = S_Params

-----------------------------------------------------------------------------
(* The order of the sections of the artifact                                *)

\* the lines of the header: the generated / do-not-edit notice, the
\* formatting directive and the lint-suppression directives
HeaderSection ==
  LinesOf("// This file is generated by lavish: DO NOT EDIT")
    \cup LinesOf("#![cfg_attr(rustfmt, rustfmt_skip)]")
    \cup LinesOf("#![allow(clippy::all)]")
    \cup LinesOf("#![allow(unknown_lints)]")
    \cup LinesOf("#![allow(unused)]")

\* the opening lines of the unions
UnionSection == LinesOf("pub enum {} {")

\* the shared message / handle / protocol type aliases
SharedAliasSection ==
  LinesOf("pub type Message = rpc::Message<Params, NotificationParams, Results>;")
    \cup LinesOf("pub type Handle = rpc::Handle<Params, NotificationParams, Results>;")
    \cup LinesOf("pub type System = rpc::System<Params, NotificationParams, Results>;")
    \cup LinesOf("pub type Protocol = rpc::Protocol<Params, NotificationParams, Results>;")
    \cup LinesOf("pub type HandlerRet = Pin<Box<dyn Future<Output = Result<Results, rpc::Error>> + Send + 'static>>;")

\* the type aliases of the handler slots
SlotAliasSection ==
  LinesOf("pub type SlotFuture = ")
    \cup LinesOf("pub type SlotReturn = Pin<Box<SlotFuture>>;")
    \cup LinesOf("pub type SlotFn<'a, T> = ")
    \cup LinesOf("pub type Slot<'a, T> = Option<Box<SlotFn<'a, T>>>;")

\* the opening line of the handler aggregate, and its slots
HandlerSection == LinesOf("pub struct Handler<'a, T> {")

SlotLines == LinesOf("{}: Slot<'a, T>,")

\* the opening lines of the modules of the top-level namespaces
NamespaceSection == { i \in ModLines : out[i].fun = << >> /\ out[i].indent = scope(0) }

\* the first arguments of the lines of the set S, in the order of the lines
\* in the artifact
FirstArgsInOrder(S) ==
  LET picked == SelectSeq([i \in 1..Len(out) |-> i], LAMBDA i : i \in S)
  IN  [k \in 1..Len(picked) |-> out[picked[k]].args[1]]

\* every line of A is written before every line of B
Before(A, B) == \A i \in A : \A j \in B : i < j

\* C19 as stated: header, then the unions together with their dispatch
\* implementations, then the type aliases, then the handler aggregate, then
\* the namespace modules; no type alias before the last dispatch
\* implementation.
C19_AliasesAfterDispatch ==
  Emitted =>
    /\ Before(HeaderSection, UnionSection)
    /\ Before(UnionSection, SharedAliasSection)
    /\ Before(ImplLines, SharedAliasSection \cup SlotAliasSection)
    /\ Before(SharedAliasSection, HandlerSection)
    /\ Before(HandlerSection, NamespaceSection)

\* C19 amended: header, then the three unions, then the shared type aliases,
\* then the three dispatch implementations, then the slot aliases and the
\* handler aggregate with one slot per request Fun, then the namespace
\* modules; each section is written.
C19_SectionOrder ==
  Emitted =>
    /\ Before(HeaderSection, UnionSection)
    /\ Before(UnionSection, SharedAliasSection)
    /\ Before(SharedAliasSection, ImplLines)
    /\ Before(ImplLines, SlotAliasSection)
    /\ Before(SlotAliasSection, HandlerSection)
    /\ Before(HandlerSection, SlotLines)
    /\ Before(SlotLines, NamespaceSection)
    /\ Cardinality(HeaderSection) = 5
    /\ FunsInOrder(UnionSection) = << << >>, << >>, << >> >>
    /\ [k \in 1..3 |-> Atoms[k].side] = FirstArgsInOrder(ImplLines)
    /\ Cardinality(SharedAliasSection) = 5
    /\ Cardinality(HandlerSection) = 1
    /\ { out[i].fun : i \in SlotLines } = { f.tokens : f \in FunsOfClass("Request") }
    /\ Cardinality(SlotLines) = Cardinality(FunsOfClass("Request"))
    /\ Cardinality(NamespaceSection) = Len(namespaces)

\* an artifact with a handler slot and two namespace modules is written
C19_Witness ==
  /\ Emitted
  /\ SlotLines # {}
  /\ Cardinality(NamespaceSection) = 2
  /\ ImplLines # {}

-----------------------------------------------------------------------------
(* The text-emission layer (src/codegen/output.rs).  A Scope is modelled    *)
(* with the characters its writer holds; every character carries two        *)
(* history fields: by, what wrote it ("indent" for the indentation of       *)
(* write_str, "open" / "close" for a brace or bracket of a helper, "helper" *)
(* for the other characters of a helper, "body" for a caller's text), and   *)
(* depth, the number of scope() calls the writing Scope is nested in.       *)

\* output.rs: const INDENT_WIDTH
Scope_INDENT_WIDTH == 4

Cell(ch, tag) == [ch |-> ch, by |-> tag.by, depth |-> tag.depth]

Tag(by, depth) == [by |-> by, depth |-> depth]

RECURSIVE write_tokens(_, _, _, _)
\* Scope::write_str: the loop over s.split('\n')
write_tokens(s, tokens, i, tag) ==
  IF i > Len(tokens) THEN s
  ELSE
    LET s1 == IF i > 1
              THEN [s EXCEPT !.writer = Append(@, Cell("\n", tag)),
                             !.state = "NeedIndent"]
              ELSE s
        token == tokens[i]
        s2 == IF s1.state = "NeedIndent"
              THEN [s1 EXCEPT !.writer = @ \o [k \in 1..s1.indent |->
                                                 Cell(" ", Tag("indent", tag.depth))],
                              !.state = "Indented"]
              ELSE s1
        s3 == [s2 EXCEPT !.writer = @ \o [k \in 1..Len(token) |-> Cell(token[k], tag)]]
    IN  IF token = << >> THEN write_tokens(s1, tokens, i + 1, tag)
        ELSE write_tokens(s3, tokens, i + 1, tag)

\* impl fmt::Write for Scope: write_str
write_str(s, str, tag) == write_tokens(s, split(str, "\n"), 1, tag)

\* Scope::new
Scope_new == [writer |-> << >>, indent |-> 0, state |-> "NeedIndent"]

\* Scope::write
Scope_write(s, d, tag) == write_str(s, d, tag)

\* Scope::lf
Scope_lf(s, tag) == write_str(s, << "\n" >>, tag)

\* Scope::line
Scope_line(s, d, tag) == Scope_lf(Scope_write(s, d, tag), tag)

\* Scope::scope: the child writes to the same writer, one level deeper
Scope_scope(s) ==
  [writer |-> s.writer, indent |-> s.indent + Scope_INDENT_WIDTH, state |-> "NeedIndent"]

\* Scope::fresh_line
fresh_line(s) == s.state = "NeedIndent"

\* Scope::in_terminated_block up to the call of the body closure; line("{") is
\* write("{") and lf()
block_open(s, depth) ==
  LET s1 == IF ~fresh_line(s) THEN Scope_write(s, << " " >>, Tag("helper", depth)) ELSE s
  IN  Scope_lf(Scope_write(s1, << "{" >>, Tag("open", depth)), Tag("helper", depth))

\* Scope::in_terminated_block after the body closure and the drop of the child
block_close(s, terminator, depth) ==
  Scope_lf(Scope_write(Scope_write(s, << "}" >>, Tag("close", depth)),
                       terminator, Tag("helper", depth)),
           Tag("helper", depth))

\* enum Brackets
Brackets == { "Round", "Squares", "Curly", "Angle", "None" }

\* Brackets::pair
Brackets_pair(b) ==
  CASE b = "Round" -> << << "(" >>, << ")" >> >>
    [] b = "Squares" -> << << "[" >>, << "]" >> >>
    [] b = "Curly" -> << << "{" >>, << "}" >> >>
    [] b = "Angle" -> << << "<" >>, << ">" >> >>
    [] b = "None" -> << << >>, << >> >>

\* Brackets::open
Brackets_open(b) == Brackets_pair(b)[1]

\* Brackets::close
Brackets_close(b) == Brackets_pair(b)[2]

\* List::new
List_new(separator, brackets) ==
  [brackets |-> brackets, empty_list |-> TRUE, omit_empty |-> FALSE,
   separator |-> separator]

\* List::omit_empty
List_omit_empty(list) == [list EXCEPT !.omit_empty = TRUE]

\* List::item writing the separator before the first item too
List_item_separator_first(s, list, d, depth) ==
  LET s1 == IF list.empty_list
            THEN Scope_write(Scope_write(s, Brackets_open(list.brackets), Tag("open", depth)),
                             list.separator, Tag("helper", depth))
            ELSE Scope_write(s, list.separator, Tag("helper", depth))
  IN  [scope |-> Scope_write(s1, d, Tag("body", depth)),
       list |-> [list EXCEPT !.empty_list = FALSE]]

\* List::item: the Scope of the list after the write, and the list
List_item(s, list, d, depth) ==
  LET s1 == IF list.empty_list
            THEN Scope_write(s, Brackets_open(list.brackets), Tag("open", depth))
            ELSE Scope_write(s, list.separator, Tag("helper", depth))
  IN  [scope |-> Scope_write(s1, d, Tag("body", depth)),
       list |-> [list EXCEPT !.empty_list = FALSE]]

\* impl Drop for List writing no close bracket after the items
List_drop_unclosed(s, list, depth) ==
  IF list.empty_list
  THEN IF list.omit_empty THEN s
       ELSE Scope_write(Scope_write(s, Brackets_open(list.brackets), Tag("open", depth)),
                        Brackets_close(list.brackets), Tag("close", depth))
  ELSE s

\* impl Drop for List: the Scope of the list after the drop
List_drop(s, list, depth) ==
  IF list.empty_list
  THEN IF list.omit_empty THEN s
       ELSE Scope_write(Scope_write(s, Brackets_open(list.brackets), Tag("open", depth)),
                        Brackets_close(list.brackets), Tag("close", depth))
  ELSE Scope_write(s, Brackets_close(list.brackets), Tag("close", depth))

-----------------------------------------------------------------------------
(* Callers of the text-emission layer: any nesting of scope / in_scope,     *)
(* in_block / in_terminated_block and in_list, with writes in between.      *)
(* stack holds the Scopes and the List alive; a List borrows the Scope      *)
(* below it, so it is always the innermost entry.                           *)

\* the most calls that write (write, in_block, in_list, item) a caller makes
MaxOps == 3

\* the most Scopes and Lists alive at once
MaxNesting == 3

\* what the body closures write: a closing brace of their own, or a newline
BodyTexts == { << "}" >>, << "\n" >> }

\* the brackets in_list is called with
ListBrackets == { "Round", "None" }

\* the terminators in_terminated_block is called with ("" is in_block)
Terminators == { << >>, << ";" >> }

\* the items the body closure of in_list hands to List::item
ListItems == { << "a" >>, << "b" >> }

\* an entry of stack for a Scope
ScopeFrame(kind, s, terminator) ==
  [kind |-> kind, indent |-> s.indent, state |-> s.state,
   terminator |-> terminator, list |-> List_new(<< >>, "None"),
   start |-> 0, items |-> << >>]

\* an entry of stack for a List; start and items are history fields: the
\* length of text when List::new was called, and the items handed to
\* List::item so far
ListFrame(list, start) ==
  [kind |-> "list", indent |-> 0, state |-> "NeedIndent",
   terminator |-> << >>, list |-> list, start |-> start, items |-> << >>]

\* the Scope held at entry k of stack, with the writer as it is now
ScopeAt(k) == [writer |-> text, indent |-> stack[k].indent, state |-> stack[k].state]

\* stack with the Scope at entry k replaced by s
Stored(st, k, s) == [st EXCEPT ![k].indent = s.indent, ![k].state = s.state]

\* the innermost entry of stack
Top == Len(stack)

InScope == stack # << >> /\ stack[Top].kind # "list"

InitScope ==
  /\ stack = << ScopeFrame("scope", Scope_new, << >>) >>
  /\ text = << >>
  /\ ops = 0
  /\ modules = << >>
  /\ pc = "idle"
  /\ mi = 1
  /\ di = 1
  /\ namespaces = IndexMap_new
  /\ ai = 1
  /\ ni = 1
  /\ out = << >>
  /\ result = "Running"
  /\ IrIdle
  /\ WorkspaceIdle

\* Scope::write from a body closure
ScopeWrite ==
  /\ InScope
  /\ ops < MaxOps
  /\ \E d \in BodyTexts :
       LET s == Scope_write(ScopeAt(Top), d, Tag("body", Top - 1))
       IN  /\ text' = s.writer
           /\ stack' = Stored(stack, Top, s)
  /\ ops' = ops + 1
  /\ UNCHANGED << codegenVars, irVars, workspaceVars >>

\* Scope::scope / Scope::in_scope: the child Scope is made
ScopeEnter ==
  /\ InScope
  /\ ops < MaxOps
  /\ Top < MaxNesting
  /\ stack' = Append(stack, ScopeFrame("scope", Scope_scope(ScopeAt(Top)), << >>))
  /\ UNCHANGED << text, ops, codegenVars, irVars, workspaceVars >>

\* the child Scope of scope / in_scope is dropped
ScopeLeave ==
  /\ Top > 1
  /\ stack[Top].kind = "scope"
  /\ stack' = SubSeq(stack, 1, Top - 1)
  /\ UNCHANGED << text, ops, codegenVars, irVars, workspaceVars >>

\* Scope::in_block / in_terminated_block up to the call of the body closure
BlockEnter ==
  /\ InScope
  /\ ops < MaxOps
  /\ Top < MaxNesting
  /\ \E terminator \in Terminators :
       LET s == block_open(ScopeAt(Top), Top - 1)
       IN  /\ text' = s.writer
           /\ stack' = Append(Stored(stack, Top, s),
                              ScopeFrame("block", Scope_scope(s), terminator))
  /\ ops' = ops + 1
  /\ UNCHANGED << codegenVars, irVars, workspaceVars >>

\* Scope::in_terminated_block once the body closure has returned
BlockLeave ==
  /\ Top > 1
  /\ stack[Top].kind = "block"
  /\ LET s == block_close(ScopeAt(Top - 1), stack[Top].terminator, Top - 2)
     IN  /\ text' = s.writer
         /\ stack' = Stored(SubSeq(stack, 1, Top - 1), Top - 1, s)
  /\ UNCHANGED << ops, codegenVars, irVars, workspaceVars >>

\* Scope::in_list up to the call of the body closure
ListEnter ==
  /\ InScope
  /\ ops < MaxOps
  /\ Top < MaxNesting
  /\ \E brackets \in ListBrackets :
       stack' = Append(stack, ListFrame(List_new(<< ",", " " >>, brackets), Len(text)))
  /\ ops' = ops + 1
  /\ UNCHANGED << text, codegenVars, irVars, workspaceVars >>

\* List::omit_empty from the body closure of in_list
ListOmitEmpty ==
  /\ stack # << >>
  /\ stack[Top].kind = "list"
  /\ ~stack[Top].list.omit_empty
  /\ stack' = [stack EXCEPT ![Top].list = List_omit_empty(@)]
  /\ UNCHANGED << text, ops, codegenVars, irVars, workspaceVars >>

\* List::item from the body closure of in_list
ListItem ==
  /\ stack # << >>
  /\ stack[Top].kind = "list"
  /\ ops < MaxOps
  /\ \E d \in ListItems :
       LET r == List_item(ScopeAt(Top - 1), stack[Top].list, d, Top - 2)
       IN  /\ text' = r.scope.writer
           /\ stack' = [Stored(stack, Top - 1, r.scope) EXCEPT
                          ![Top].list = r.list,
                          ![Top].items = Append(@, d)]
  /\ ops' = ops + 1
  /\ UNCHANGED << codegenVars, irVars, workspaceVars >>

\* Scope::in_list once the body closure has returned: the List is dropped
ListLeave ==
  /\ stack # << >>
  /\ stack[Top].kind = "list"
  /\ LET s == List_drop(ScopeAt(Top - 1), stack[Top].list, Top - 2)
     IN  /\ text' = s.writer
         /\ stack' = Stored(SubSeq(stack, 1, Top - 1), Top - 1, s)
  /\ UNCHANGED << ops, codegenVars, irVars, workspaceVars >>

NextScope ==
  \/ ScopeWrite
  \/ ScopeEnter
  \/ ScopeLeave
  \/ BlockEnter
  \/ BlockLeave
  \/ ListEnter
  \/ ListOmitEmpty
  \/ ListItem
  \/ ListLeave

SpecScope == InitScope /\ [][NextScope]_vars

-----------------------------------------------------------------------------
(* Balance of the braces and brackets of the helpers                        *)

\* the close a helper owes for an open it wrote
ClosingOf(ch) ==
  CASE ch = "{" -> "}"
    [] ch = "(" -> ")"
    [] ch = "[" -> "]"
    [] ch = "<" -> ">"

RECURSIVE Unclosed(_, _, _)
\* reading the braces and brackets the helpers wrote into cells from position
\* i on, with pending the closes owed so far, innermost last: the closes owed
\* at the end, or << "unbalanced" >> when a close comes that is not the
\* innermost one owed
Unclosed(cells, i, pending) ==
  IF i > Len(cells) THEN pending
  ELSE IF cells[i].by = "open"
       THEN Unclosed(cells, i + 1, Append(pending, ClosingOf(cells[i].ch)))
  ELSE IF cells[i].by = "close"
       THEN IF pending # << >> /\ pending[Len(pending)] = cells[i].ch
            THEN Unclosed(cells, i + 1, SubSeq(pending, 1, Len(pending) - 1))
            ELSE << "unbalanced" >>
  ELSE Unclosed(cells, i + 1, pending)

\* the closes the helpers still running owe: one brace per block, one close
\* bracket per list that has written its open bracket
Owed(st) ==
  concat([k \in 1..Len(st) |->
            IF st[k].kind = "block" THEN << "}" >>
            ELSE IF st[k].kind = "list" /\ ~st[k].list.empty_list
                 THEN Brackets_close(st[k].list.brackets)
            ELSE << >>])

\* C15: whatever the body closures write, the braces and brackets written by
\* in_block, in_terminated_block and in_list are balanced: a close is always
\* the one owed for the innermost open still unclosed, the opens still
\* unclosed are those of the helpers still running, and none is left once
\* every helper has returned.
C15_Balanced ==
  stack # << >> => Unclosed(text, 1, << >>) = Owed(stack)

\* every helper has returned, and a body closure wrote a closing brace of its
\* own between the open and the close of a helper
C15_Witness ==
  /\ Len(stack) = 1
  /\ stack[1].kind = "scope"
  /\ \E i, j, k \in 1..Len(text) :
       /\ i < j /\ j < k
       /\ text[i].by = "open"
       /\ text[j].by = "body" /\ text[j].ch = "}"
       /\ text[k].by = "close"

-----------------------------------------------------------------------------
(* Indentation                                                              *)

RECURSIVE IndentRun(_)
\* the number of indentation characters written from position i of text on
IndentRun(i) ==
  IF i <= Len(text) /\ text[i].by = "indent" THEN 1 + IndentRun(i + 1) ELSE 0

\* the positions of text at which a non-blank line begins
LineStarts ==
  { i \in 1..Len(text) : (i = 1 \/ text[i - 1].ch = "\n") /\ text[i].ch # "\n" }

\* C16: every non-blank line begins with exactly 4 spaces times the nesting
\* depth of the Scope that wrote the line's first character (a closing brace
\* of a block at the parent's depth), and with nothing else before that
\* character; a blank line holds no character at all.
C16_Indented ==
  stack # << >> =>
    \A i \in LineStarts :
      LET k == IndentRun(i)
      IN  /\ i + k <= Len(text)
          /\ text[i + k].by # "indent"
          /\ text[i + k].ch # "\n"
          /\ k = 4 * text[i + k].depth

-----------------------------------------------------------------------------
(* The typed builders (src/codegen/rust/ir/lang.rs): _Fn, Allow and Derive. *)
(* An Option is a sequence, << >> for None and << x >> for Some(x); a body  *)
(* closure is the line it writes.                                           *)

\* the most entries a builder is given in one list (params, type_params,
\* items)
MaxItems == 2

S_f == << "f" >>

S_a == << "a" >>

S_self == << "&","s","e","l","f" >>

S_T == << "T" >>

S_U == << "U" >>

S_Copy == << "C","o","p","y" >>

S_Clone == << "C","l","o","n","e" >>

S_Debug == << "D","e","b","u","g" >>

S_unused == << "u","n","u","s","e","d" >>

S_non_camel_case_types ==
  << "n","o","n","_","c","a","m","e","l","_","c","a","s","e","_","t","y","p","e","s" >>

S_where == << "w","h","e","r","e" >>

\* the characters of a writer, without their history fields
Text(cells) == [i \in 1..Len(cells) |-> cells[i].ch]

\* write!(f, ...) on a plain formatter, no Scope in between
Formatted(str) == [i \in 1..Len(str) |-> Cell(str[i], Tag("body", 0))]

\* struct TypeParam
TypeParam(name, bound) == [name |-> name, bound |-> bound]

\* lang.rs: _fn(name)
_fn(name) ==
  [kind |-> "Fn", kw_pub |-> FALSE, name |-> name, params |-> << >>,
   type_params |-> << >>, self_param |-> << >>, body |-> << >>, ret |-> << >>,
   self_bound |-> << >>]

\* lang.rs: allow()
allow == [kind |-> "Allow", items |-> << >>]

\* lang.rs: derive()
derive == [kind |-> "Derive", items |-> {}]

RECURSIVE list_items(_, _, _, _, _)
\* the loop of l.item calls of a body closure of in_list
list_items(s, list, items, i, depth) ==
  IF i > Len(items) THEN [scope |-> s, list |-> list]
  ELSE LET r == List_item(s, list, items[i], depth)
       IN  list_items(r.scope, r.list, items, i + 1, depth)

\* Scope::in_list with a body closure that calls omit_empty when omit is set
\* and then item for each of items
Scope_in_list(s, brackets, omit, items, depth) ==
  LET fresh == List_new(<< ",", " " >>, brackets)
      list == IF omit THEN List_omit_empty(fresh) ELSE fresh
      r == list_items(s, list, items, 1, depth)
  IN  List_drop(r.scope, r.list, depth)

\* the Scope s after a child Scope that wrote up to child has been dropped
after_child(s, child) == [s EXCEPT !.writer = child.writer]

\* _Fn::fmt writing the where clause for a self bound only
has_bounds_self_only(fn) == fn.self_bound # << >>

\* _Fn::fmt: the condition of the where clause
has_bounds(fn) ==
  fn.self_bound # << >>
    \/ \E i \in 1..Len(fn.type_params) : fn.type_params[i].bound # << >>

RECURSIVE type_param_bounds(_, _, _)
\* _Fn::fmt: the loop writing "{name}: {bound}," for the bound type parameters
type_param_bounds(s, tps, i) ==
  IF i > Len(tps) THEN s
  ELSE IF tps[i].bound # << >>
       THEN type_param_bounds(
              write_str(s, tps[i].name \o << ":", " " >> \o tps[i].bound[1] \o << ",", "\n" >>,
                        Tag("helper", 1)),
              tps, i + 1)
  ELSE type_param_bounds(s, tps, i + 1)

\* _Fn::fmt: the where clause, written when the _Fn has a bound
where_clause(s, fn) ==
  LET h == Tag("helper", 0)
      w == Scope_lf(Scope_write(Scope_lf(s, h), S_where, h), h)
      c0 == Scope_scope(w)
      c1 == IF fn.self_bound # << >>
            THEN write_str(c0, << "S","e","l","f",":"," " >> \o fn.self_bound[1]
                                 \o << ",", "\n" >>, Tag("helper", 1))
            ELSE c0
  IN  after_child(w, type_param_bounds(c1, fn.type_params, 1))

\* _Fn::fmt: the body in a block, or a semicolon
body_or_semicolon(s, fn) ==
  LET h == Tag("helper", 0)
      b0 == block_open(s, 0)
      b1 == Scope_line(Scope_scope(b0), fn.body[1], Tag("body", 1))
  IN  IF fn.body # << >>
      THEN block_close(after_child(b0, b1), << >>, 0)
      ELSE Scope_lf(Scope_write(s, << ";" >>, h), h)

\* the bytes of the characters the markers are made of, in ascending order
AsciiOrder == UpperChars \o << "_" >> \o LowerChars

RECURSIVE str_lt(_, _)
\* impl Ord for String: a < b, byte by byte
str_lt(a, b) ==
  IF b = << >> THEN FALSE
  ELSE IF a = << >> THEN TRUE
  ELSE IF a[1] = b[1] THEN str_lt(Tail(a), Tail(b))
  ELSE IndexIn(AsciiOrder, a[1]) < IndexIn(AsciiOrder, b[1])

RECURSIVE sort(_)
\* Vec::sort
sort(v) ==
  IF v = << >> THEN << >>
  ELSE LET least == CHOOSE i \in 1..Len(v) :
                      \A j \in 1..Len(v) : ~str_lt(v[j], v[i]) /\ (v[j] = v[i] => i <= j)
       IN  << v[least] >>
             \o sort([k \in 1..(Len(v) - 1) |-> IF k < least THEN v[k] ELSE v[k + 1]])

\* impl Display for Allow
Allow_fmt(a) ==
  Formatted(<< "#","[","a","l","l","o","w","(" >> \o join(a.items, << ",", " " >>)
              \o << ")", "]", "\n" >>)

\* impl Display for Derive, collected being the items in the order the
\* iteration over the HashSet gave them
Derive_fmt(collected) ==
  Formatted(<< "#","[","d","e","r","i","v","e","(" >> \o join(sort(collected), << ",", " " >>)
              \o << ")", "]", "\n" >>)

\* the orders an iteration over a HashSet can give its elements in
IterationOrders(set) ==
  { v \in [1..Cardinality(set) -> set] : \A x \in set : \E i \in DOMAIN v : v[i] = x }

-----------------------------------------------------------------------------
(* Callers of the builders: a value is made by _fn, allow or derive, any    *)
(* builder methods are called on it, and it is rendered by its Display      *)
(* implementation.                                                          *)

Building(kind) == irpc = "build" /\ ir.kind = kind

InitIr ==
  /\ ir \in { _fn(S_f), allow, derive }
  /\ irpc = "build"
  /\ stack = << >>
  /\ text = << >>
  /\ ops = 0
  /\ modules = << >>
  /\ pc = "idle"
  /\ mi = 1
  /\ di = 1
  /\ namespaces = IndexMap_new
  /\ ai = 1
  /\ ni = 1
  /\ out = << >>
  /\ result = "Running"
  /\ WorkspaceIdle

\* _Fn::kw_pub
Fn_kw_pub ==
  /\ Building("Fn")
  /\ ir' = [ir EXCEPT !.kw_pub = TRUE]
  /\ UNCHANGED << irpc, codegenVars, scopeVars, workspaceVars >>

\* _Fn::returns
Fn_returns ==
  /\ Building("Fn")
  /\ ir' = [ir EXCEPT !.ret = << S_i32 >>]
  /\ UNCHANGED << irpc, codegenVars, scopeVars, workspaceVars >>

\* _Fn::body, with a closure that writes one line
Fn_body ==
  /\ Building("Fn")
  /\ ir' = [ir EXCEPT !.body = << S_a >>]
  /\ UNCHANGED << irpc, codegenVars, scopeVars, workspaceVars >>

\* _Fn::self_param
Fn_self_param ==
  /\ Building("Fn")
  /\ ir' = [ir EXCEPT !.self_param = << S_self >>]
  /\ UNCHANGED << irpc, codegenVars, scopeVars, workspaceVars >>

\* _Fn::type_param
Fn_type_param ==
  /\ Building("Fn")
  /\ Len(ir.type_params) < MaxItems
  /\ ir' = [ir EXCEPT !.type_params = Append(@, TypeParam(S_T, << >>))]
  /\ UNCHANGED << irpc, codegenVars, scopeVars, workspaceVars >>

\* _Fn::type_param_bound
Fn_type_param_bound ==
  /\ Building("Fn")
  /\ Len(ir.type_params) < MaxItems
  /\ ir' = [ir EXCEPT !.type_params = Append(@, TypeParam(S_U, << S_Copy >>))]
  /\ UNCHANGED << irpc, codegenVars, scopeVars, workspaceVars >>

\* _Fn::param
Fn_param ==
  /\ Building("Fn")
  /\ Len(ir.params) < MaxItems
  /\ ir' = [ir EXCEPT !.params = Append(@, S_a)]
  /\ UNCHANGED << irpc, codegenVars, scopeVars, workspaceVars >>

\* _Fn::self_bound
Fn_self_bound ==
  /\ Building("Fn")
  /\ ir' = [ir EXCEPT !.self_bound = << S_Clone >>]
  /\ UNCHANGED << irpc, codegenVars, scopeVars, workspaceVars >>

\* Allow::non_camel_case
Allow_non_camel_case ==
  /\ Building("Allow")
  /\ Len(ir.items) < MaxItems
  /\ ir' = [ir EXCEPT !.items = Append(@, S_non_camel_case_types)]
  /\ UNCHANGED << irpc, codegenVars, scopeVars, workspaceVars >>

\* Allow::unused
Allow_unused ==
  /\ Building("Allow")
  /\ Len(ir.items) < MaxItems
  /\ ir' = [ir EXCEPT !.items = Append(@, S_unused)]
  /\ UNCHANGED << irpc, codegenVars, scopeVars, workspaceVars >>

\* Derive::debug
Derive_debug ==
  /\ Building("Derive")
  /\ ir' = [ir EXCEPT !.items = @ \cup { S_Debug }]
  /\ UNCHANGED << irpc, codegenVars, scopeVars, workspaceVars >>

\* Derive::clone
Derive_clone ==
  /\ Building("Derive")
  /\ ir' = [ir EXCEPT !.items = @ \cup { S_Clone }]
  /\ UNCHANGED << irpc, codegenVars, scopeVars, workspaceVars >>

\* Derive::copy
Derive_copy ==
  /\ Building("Derive")
  /\ ir' = [ir EXCEPT !.items = @ \cup { S_Copy }]
  /\ UNCHANGED << irpc, codegenVars, scopeVars, workspaceVars >>

\* the position irpc of impl Display for _Fn, and the Scope of Scope::fmt
Formatting(at) == irpc = at /\ ir.kind = "Fn"

\* impl Display for _Fn: Scope::fmt makes the Scope, `pub ` is written
FmtFnPub ==
  /\ Building("Fn")
  /\ LET s == IF ir.kw_pub
              THEN Scope_write(Scope_new, << "p","u","b"," " >>, Tag("helper", 0))
              ELSE Scope_new
     IN  /\ text' = s.writer
         /\ stack' = << ScopeFrame("scope", s, << >>) >>
  /\ irpc' = "name"
  /\ UNCHANGED << ir, ops, codegenVars, workspaceVars >>

\* impl Display for _Fn: `fn ` and the name
FmtFnName ==
  /\ Formatting("name")
  /\ LET s == Scope_write(Scope_write(ScopeAt(1), << "f","n"," " >>, Tag("helper", 0)),
                          ir.name, Tag("helper", 0))
     IN  /\ text' = s.writer
         /\ stack' = Stored(stack, 1, s)
  /\ irpc' = "type_params"
  /\ UNCHANGED << ir, ops, codegenVars, workspaceVars >>

\* impl Display for _Fn: the list of the type parameters
FmtFnTypeParams ==
  /\ Formatting("type_params")
  /\ LET s == Scope_in_list(ScopeAt(1), "Angle", TRUE,
                            [i \in 1..Len(ir.type_params) |-> ir.type_params[i].name], 0)
     IN  /\ text' = s.writer
         /\ stack' = Stored(stack, 1, s)
  /\ irpc' = "params"
  /\ UNCHANGED << ir, ops, codegenVars, workspaceVars >>

\* impl Display for _Fn: the list of the self parameter and the parameters
FmtFnParams ==
  /\ Formatting("params")
  /\ LET s == Scope_in_list(ScopeAt(1), "Round", FALSE, ir.self_param \o ir.params, 0)
     IN  /\ text' = s.writer
         /\ stack' = Stored(stack, 1, s)
  /\ irpc' = "ret"
  /\ UNCHANGED << ir, ops, codegenVars, workspaceVars >>

\* impl Display for _Fn: the return type
FmtFnRet ==
  /\ Formatting("ret")
  /\ LET s == IF ir.ret # << >>
              THEN Scope_write(Scope_write(ScopeAt(1), << " ","-",">"," " >>,
                                           Tag("helper", 0)),
                               ir.ret[1], Tag("helper", 0))
              ELSE ScopeAt(1)
     IN  /\ text' = s.writer
         /\ stack' = Stored(stack, 1, s)
  /\ irpc' = "where"
  /\ UNCHANGED << ir, ops, codegenVars, workspaceVars >>

\* impl Display for _Fn: the where clause
FmtFnWhere ==
  /\ Formatting("where")
  /\ LET s == IF has_bounds(ir) THEN where_clause(ScopeAt(1), ir) ELSE ScopeAt(1)
     IN  /\ text' = s.writer
         /\ stack' = Stored(stack, 1, s)
  /\ irpc' = "body"
  /\ UNCHANGED << ir, ops, codegenVars, workspaceVars >>

\* impl Display for _Fn: the body or the semicolon; the Scope is dropped
FmtFnBody ==
  /\ Formatting("body")
  /\ text' = body_or_semicolon(ScopeAt(1), ir).writer
  /\ stack' = << >>
  /\ irpc' = "rendered"
  /\ UNCHANGED << ir, ops, codegenVars, workspaceVars >>

\* format!("{}", a) of an Allow
RenderAllow ==
  /\ Building("Allow")
  /\ text' = Allow_fmt(ir)
  /\ irpc' = "rendered"
  /\ UNCHANGED << ir, stack, ops, codegenVars, workspaceVars >>

\* format!("{}", d) of a Derive
RenderDerive ==
  /\ Building("Derive")
  /\ \E collected \in IterationOrders(ir.items) : text' = Derive_fmt(collected)
  /\ irpc' = "rendered"
  /\ UNCHANGED << ir, stack, ops, codegenVars, workspaceVars >>

NextIr ==
  \/ Fn_kw_pub
  \/ Fn_returns
  \/ Fn_body
  \/ Fn_self_param
  \/ Fn_type_param
  \/ Fn_type_param_bound
  \/ Fn_param
  \/ Fn_self_bound
  \/ Allow_non_camel_case
  \/ Allow_unused
  \/ Derive_debug
  \/ Derive_clone
  \/ Derive_copy
  \/ FmtFnPub
  \/ FmtFnName
  \/ FmtFnTypeParams
  \/ FmtFnParams
  \/ FmtFnRet
  \/ FmtFnWhere
  \/ FmtFnBody
  \/ RenderAllow
  \/ RenderDerive

SpecIr == InitIr /\ [][NextIr]_vars

-----------------------------------------------------------------------------
(* Rendered function definitions                                            *)

\* a _Fn has been rendered
RenderedFn == irpc = "rendered" /\ ir.kind = "Fn"

\* the lines of the rendered text
RenderedLines == split(Text(text), "\n")

\* the characters written right after `fn ` and the name
AfterName ==
  LET start == (IF ir.kw_pub THEN 4 ELSE 0) + 3 + Len(ir.name)
  IN  SubSeq(Text(text), start + 1, Len(text))

\* a _Fn has a bound: a self bound or a bound of a type parameter
Bounded(fn) ==
  Len(fn.self_bound) + Cardinality({ i \in 1..Len(fn.type_params) :
                                       Len(fn.type_params[i].bound) > 0 }) > 0

\* C17: a rendered _Fn without type parameters has no angle-bracket list (the
\* parameter list follows the name at once), with type parameters it has one
\* after the name; without self parameter and positional parameters the text
\* `()` is written after the name and the type parameters; a line `where`
\* is written if and only if the _Fn has a self bound or a bound type
\* parameter.
C17_FnOptionalParts ==
  RenderedFn =>
    /\ IF ir.type_params = << >>
       THEN /\ AfterName[1] = "("
            /\ ~ \E i \in 1..Len(text) :
                   text[i].by \in { "open", "close" } /\ text[i].ch \in { "<", ">" }
       ELSE /\ AfterName[1] = "<"
            /\ Cardinality({ i \in 1..Len(text) : text[i].by = "open" /\ text[i].ch = "<" }) = 1
            /\ Cardinality({ i \in 1..Len(text) : text[i].by = "close" /\ text[i].ch = ">" }) = 1
    /\ (ir.self_param = << >> /\ ir.params = << >>) =>
         \E i \in 1..(Len(text) - 1) :
           /\ text[i].ch = "(" /\ text[i].by = "open"
           /\ text[i + 1].ch = ")" /\ text[i + 1].by = "close"
    /\ (ir.type_params = << >> /\ ir.self_param = << >> /\ ir.params = << >>) =>
         SubSeq(AfterName, 1, 2) = << "(", ")" >>
    /\ (\E k \in 1..Len(RenderedLines) : RenderedLines[k] = S_where) <=> Bounded(ir)

\* a _Fn without type parameters, self parameter and positional parameters
\* but with a self bound has been rendered
C17_Witness ==
  /\ RenderedFn
  /\ ir.type_params = << >>
  /\ ir.self_param = << >>
  /\ ir.params = << >>
  /\ ir.self_bound # << >>
  /\ \E k \in 1..Len(RenderedLines) : RenderedLines[k] = S_where

-----------------------------------------------------------------------------
(* Rendered attribute lists                                                 *)

\* an attribute list (Allow or Derive) has been rendered
RenderedAttribute == irpc = "rendered" /\ ir.kind \in { "Allow", "Derive" }

\* the markers of the rendered attribute, in the order written: the text
\* between the parentheses, cut at the commas, without the blank after each
\* comma
RenderedMarkers ==
  LET chars == Text(text)
      open == CHOOSE i \in 1..Len(chars) : chars[i] = "("
      close == CHOOSE i \in 1..Len(chars) : chars[i] = ")"
      inner == SubSeq(chars, open + 1, close - 1)
      pieces == IF inner = << >> THEN << >> ELSE split(inner, ",")
  IN  [k \in 1..Len(pieces) |->
         IF pieces[k] # << >> /\ pieces[k][1] = " " THEN Tail(pieces[k]) ELSE pieces[k]]

\* the markers the builder calls asked for
RequestedMarkers == IF ir.kind = "Allow" THEN Range(ir.items) ELSE ir.items

\* C18: the attribute rendered by the derive builder and by the allow builder
\* lists each requested marker exactly once, in ascending order, whatever the
\* order and the number of the builder calls.
C18_SortedDeduplicated ==
  RenderedAttribute =>
    /\ Range(RenderedMarkers) = RequestedMarkers
    /\ \A i, j \in 1..Len(RenderedMarkers) :
         i < j => str_lt(RenderedMarkers[i], RenderedMarkers[j])

-----------------------------------------------------------------------------
(* The workspace generator (src/codegen/rust/mod.rs): emit_workspace and    *)
(* emit.  A file is its path below workspace.dir and the lines written to   *)
(* it; the text Protocol, Symbols and write_pair write into a member        *)
(* artifact is left out.                                                    *)

\* the most members a workspace has
MaxMembers == 2

S_mod_rs == << "m","o","d",".","r","s" >>

S_lib_rs == << "l","i","b",".","r","s" >>

\* the names the members are drawn from
MemberNames == { S_svc, S_util, S_math }

\* ast::WorkspaceMember: its name, and whether its schema has been parsed
WorkspaceMember(name, parsed) == [name |-> name, parsed |-> parsed]

\* enum ast::RustTargetWrapper
RustTargetWrapper == { "None", "Mod", "Lib" }

\* the workspaces handed to emit_workspace: up to MaxMembers members with
\* distinct names, in the order workspace.members.values() gives them
Workspaces ==
  { [members |-> ms, wrapper |-> w] :
      ms \in { v \in UNION { [1..n -> { WorkspaceMember(name, parsed) :
                                          name \in MemberNames, parsed \in BOOLEAN }] :
                               n \in 0..MaxMembers } :
                 \A i, j \in DOMAIN v : v[i].name = v[j].name => i = j },
      w \in RustTargetWrapper }

\* emit_workspace naming the umbrella artifact mod.rs for Lib too
wrapper_name_always_mod(wrapper) ==
  CASE wrapper = "None" -> << >>
    [] wrapper = "Mod" -> << S_mod_rs >>
    [] wrapper = "Lib" -> << S_mod_rs >>

\* emit_workspace: the match on self.target.wrapper, << >> for None
wrapper_name(wrapper) ==
  CASE wrapper = "None" -> << >>
    [] wrapper = "Mod" -> << S_mod_rs >>
    [] wrapper = "Lib" -> << S_lib_rs >>

\* Generator::write_prelude
write_prelude ==
  << Ln(0, "// This file is generated by lavish: DO NOT EDIT"),
     Ln(0, "// https://github.com/fasterthanlime/lavish"),
     Ln(0, ""),
     Ln(0, "#![cfg_attr(rustfmt, rustfmt_skip)]"),
     Ln(0, "#![allow(clippy::all, unknown_lints, unused, non_snake_case)]"),
     Ln(0, "") >>

\* emit: the path of the artifact of a member, below workspace.dir
output_path(member) == << member.name, S_mod_rs >>

\* emit: the lines of the artifact of a member
member_lines ==
  write_prelude
    \o << Ln(0, "pub use schema::*;"),
          Ln(0, ""),
          Ln(0, ""),
          Ln(0, "pub mod schema {"),
          Ln(0, "}"),
          Ln(0, "") >>

\* emit_workspace: the lines of the umbrella artifact
wrapper_lines(members) ==
  write_prelude
    \o [i \in 1..Len(members) |-> Lf(0, "pub mod {};", << members[i].name >>, << >>)]

\* File::create and the writes that follow: the file at path is created, or
\* truncated, and holds lines
created(fs, path, lines) ==
  SelectSeq(fs, LAMBDA f : f.path # path) \o << [path |-> path, lines |-> lines] >>

InitWorkspace ==
  /\ workspace \in Workspaces
  /\ wpc = "members"
  /\ wi = 1
  /\ files = << >>
  /\ wresult = "Running"
  /\ modules = << >>
  /\ pc = "idle"
  /\ mi = 1
  /\ di = 1
  /\ namespaces = IndexMap_new
  /\ ai = 1
  /\ ni = 1
  /\ out = << >>
  /\ result = "Running"
  /\ ScopeIdle
  /\ IrIdle

\* emit_workspace: one iteration of the first loop, self.emit(workspace,
\* member)?; emit fails at create_dir_all or at File::create, or panics
\* after the prelude when the schema of the member has not been parsed
EmitMember ==
  /\ wpc = "members"
  /\ wi <= Len(workspace.members)
  /\ \E io \in { "ok", "dir_error", "file_error" } :
       LET member == workspace.members[wi]
       IN  \/ /\ io \in { "dir_error", "file_error" }
              /\ wresult' = "Err"
              /\ wpc' = "done"
              /\ UNCHANGED << wi, files >>
           \/ /\ io = "ok"
              /\ ~member.parsed
              /\ files' = created(files, output_path(member), write_prelude)
              /\ wresult' = "Panic"
              /\ wpc' = "done"
              /\ UNCHANGED wi
           \/ /\ io = "ok"
              /\ member.parsed
              /\ files' = created(files, output_path(member), member_lines)
              /\ wi' = wi + 1
              /\ UNCHANGED << wpc, wresult >>
  /\ UNCHANGED << workspace, codegenVars, scopeVars, irVars >>

\* emit_workspace: the first loop is over
MembersEmitted ==
  /\ wpc = "members"
  /\ wi > Len(workspace.members)
  /\ wpc' = "wrapper"
  /\ UNCHANGED << workspace, wi, files, wresult, codegenVars, scopeVars, irVars >>

\* emit_workspace: wrapper_name is None, Ok(())
NoWrapper ==
  /\ wpc = "wrapper"
  /\ wrapper_name(workspace.wrapper) = << >>
  /\ wpc' = "done"
  /\ wresult' = "Ok"
  /\ UNCHANGED << workspace, wi, files, codegenVars, scopeVars, irVars >>

\* emit_workspace: the umbrella artifact is created and written, Ok(());
\* File::create(&wrapper_path)? may fail
WriteWrapper ==
  /\ wpc = "wrapper"
  /\ wrapper_name(workspace.wrapper) # << >>
  /\ \E io \in { "ok", "file_error" } :
       \/ /\ io = "file_error"
          /\ wresult' = "Err"
          /\ UNCHANGED files
       \/ /\ io = "ok"
          /\ files' = created(files, wrapper_name(workspace.wrapper),
                              wrapper_lines(workspace.members))
          /\ wresult' = "Ok"
  /\ wpc' = "done"
  /\ UNCHANGED << workspace, wi, codegenVars, scopeVars, irVars >>

NextWorkspace ==
  \/ EmitMember
  \/ MembersEmitted
  \/ NoWrapper
  \/ WriteWrapper

SpecWorkspace == InitWorkspace /\ [][NextWorkspace]_vars

-----------------------------------------------------------------------------
(* The umbrella artifact                                                    *)

\* the files of the workspace directory itself: the umbrella artifacts
UmbrellaFiles == { k \in 1..Len(files) : Len(files[k].path) = 1 }

\* the names on the `pub mod <member>;` lines of a file, in order
PubModNames(lines) ==
  LET picked == SelectSeq(lines, LAMBDA l : l.fmt = "pub mod {};")
  IN  [k \in 1..Len(picked) |-> picked[k].args[1]]

\* the names of the members with an artifact in files
EmittedMembers == { files[k].path[1] : k \in (1..Len(files)) \ UmbrellaFiles }

\* C20: with wrapper None emit_workspace creates no umbrella file; with Mod
\* it creates mod.rs and with Lib lib.rs in the workspace directory, holding
\* the prelude and one `pub mod <member>;` line per member, in member order;
\* an umbrella file exists only once the artifact of every member has been
\* emitted, and always when emit_workspace returns Ok with Mod or Lib.
C20_Umbrella ==
  wpc # "idle" =>
    /\ \A k \in UmbrellaFiles :
         /\ workspace.wrapper # "None"
         /\ files[k].path = << IF workspace.wrapper = "Mod" THEN S_mod_rs ELSE S_lib_rs >>
         /\ SubSeq(files[k].lines, 1, 6)
              = << Ln(0, "// This file is generated by lavish: DO NOT EDIT"),
                   Ln(0, "// https://github.com/fasterthanlime/lavish"),
                   Ln(0, ""),
                   Ln(0, "#![cfg_attr(rustfmt, rustfmt_skip)]"),
                   Ln(0, "#![allow(clippy::all, unknown_lints, unused, non_snake_case)]"),
                   Ln(0, "") >>
         /\ PubModNames(files[k].lines)
              = [i \in 1..Len(workspace.members) |-> workspace.members[i].name]
         /\ Len(files[k].lines) = 6 + Len(workspace.members)
         /\ EmittedMembers = { workspace.members[i].name : i \in 1..Len(workspace.members) }
         /\ k = Len(files)
    /\ (wpc = "done" /\ wresult = "Ok") =>
         Cardinality(UmbrellaFiles) = IF workspace.wrapper = "None" THEN 0 ELSE 1

\* emit_workspace has returned Ok for a workspace of two members with
\* wrapper Lib, and lib.rs is there
C20_Witness ==
  /\ wpc = "done"
  /\ wresult = "Ok"
  /\ workspace.wrapper = "Lib"
  /\ Len(workspace.members) = 2
  /\ \E k \in UmbrellaFiles : files[k].path = << S_lib_rs >>

-----------------------------------------------------------------------------
(* Failures of create_dir_all and File::create                              *)

\* emit_workspace has returned the error of the emit of member wi
MemberFailed == wpc = "done" /\ wresult = "Err" /\ wi <= Len(workspace.members)

\* emit_workspace has returned the error of creating the umbrella artifact
WrapperFailed == wpc = "done" /\ wresult = "Err" /\ wi > Len(workspace.members)

\* the paths of the files created, in order
CreatedPaths == [k \in 1..Len(files) |-> files[k].path]

\* C21, emit_workspace and emit: after a failure of create_dir_all or
\* File::create for member wi the files are the whole artifacts of the
\* members before wi and nothing else, no artifact of a later member and no
\* umbrella artifact; after a failure of creating the umbrella artifact they
\* are the artifacts of all members; Err is returned for no other reason.
C21_WorkspaceStops ==
  /\ MemberFailed =>
       /\ CreatedPaths = [k \in 1..(wi - 1) |-> output_path(workspace.members[k])]
       /\ \A k \in 1..Len(files) : files[k].lines = member_lines
  /\ WrapperFailed =>
       /\ CreatedPaths = [k \in 1..Len(workspace.members) |->
                            output_path(workspace.members[k])]
       /\ workspace.wrapper # "None"
  /\ (wpc = "done" /\ wresult = "Panic") =>
       /\ wi <= Len(workspace.members)
       /\ ~workspace.members[wi].parsed

\* the emit of the second member of a workspace with wrapper Lib has failed
\* after the artifact of the first member was written
C21_WorkspaceWitness ==
  /\ MemberFailed
  /\ wi = 2
  /\ workspace.wrapper = "Lib"
  /\ Len(files) = 1

\* C21: codegen returns with nothing written and a result other than Ok only
\* after create_dir_all or File::create failed, and the failure is then
\* returned as Err, never raised as a panic.
C21_IoFailureReturned ==
  (pc = "done" /\ result # "Ok") => (result = "Err" /\ out = << >>)

-----------------------------------------------------------------------------
(* What a List writes                                                       *)

\* the characters of cells from position start + 1 on, the indentation of
\* write_str left out
WrittenSince(cells, start) ==
  LET picked == SelectSeq(SubSeq(cells, start + 1, Len(cells)),
                          LAMBDA c : c.by # "indent")
  IN  [k \in 1..Len(picked) |-> picked[k].ch]

\* what a List that was handed items has written so far: nothing before the
\* first item, then the open bracket and the items with the separator between
\* adjacent ones
ListSoFar(f) ==
  IF f.items = << >> THEN << >>
  ELSE Brackets_open(f.list.brackets) \o join(f.items, f.list.separator)

\* what a List has written once released
ListReleased(f) ==
  IF f.items = << >>
  THEN IF f.list.omit_empty THEN << >>
       ELSE Brackets_open(f.list.brackets) \o Brackets_close(f.list.brackets)
  ELSE ListSoFar(f) \o Brackets_close(f.list.brackets)

\* a step taken while a List is alive: the text from before List::new is
\* kept; after a call of item or omit_empty the List has written the open
\* bracket and its items in call order, the separator between adjacent ones;
\* once released it has written that and the close bracket, or the open
\* bracket and the close bracket for no item, or nothing for no item with
\* omit_empty set
ListStep ==
  (stack # << >> /\ stack[Top].kind = "list") =>
    LET f == stack[Top]
    IN  /\ SubSeq(text', 1, f.start) = SubSeq(text, 1, f.start)
        /\ IF Len(stack') < Len(stack)
           THEN WrittenSince(text', f.start) = ListReleased(f)
           ELSE /\ stack'[Top].kind = "list"
                /\ Len(stack'[Top].items) \in { Len(f.items), Len(f.items) + 1 }
                /\ SubSeq(stack'[Top].items, 1, Len(f.items)) = f.items
                /\ WrittenSince(text', f.start) = ListSoFar(stack'[Top])

\* C22: a List handed n items and then released has written, for n >= 1, the
\* open bracket, the items in call order with the separator between each
\* adjacent pair and the close bracket once; for n = 0 the open bracket
\* followed by the close bracket, or nothing when omit_empty was set.
C22_ListText == [][ListStep]_vars

\* a List over round brackets was handed the items a and b and released: the
\* text is (a, b)
C22_Witness ==
  /\ Len(stack) = 1
  /\ stack[1].kind = "scope"
  /\ [k \in 1..Len(text) |-> text[k].ch] = << "(", "a", ",", " ", "b", ")" >>
  /\ [k \in 1..Len(text) |-> text[k].by]
       = << "open", "body", "helper", "helper", "body", "close" >>

-----------------------------------------------------------------------------
(* Sibling order                                                            *)

RECURSIVE FirstOccurrences(_, _)
\* the names of the sequence names from position i on that occur at no
\* earlier position, in order
FirstOccurrences(names, i) ==
  IF i > Len(names) THEN << >>
  ELSE (IF \E j \in 1..(i - 1) : names[j] = names[i] THEN << >> ELSE << names[i] >>)
       \o FirstOccurrences(names, i + 1)

\* the names of a sequence of declarations
NamesOf(decls) == [i \in 1..Len(decls) |-> decls[i].name]

\* the last declaration named name of a sequence of declarations
LastNamed(decls, name) ==
  decls[Max({ i \in 1..Len(decls) : decls[i].name = name })]

RECURSIVE FirstInsertionOrder(_, _)
\* the siblings nss of the forest stand in the order in which their names
\* first occur in decls, the namespace declarations of their level over all
\* modules in order; so do the functions of each of them, every function with
\* the last definition declared for its name; so do their children
FirstInsertionOrder(nss, decls) ==
  /\ IndexMap_keys(nss) = FirstOccurrences(NamesOf(decls), 1)
  /\ \A i \in 1..Len(nss) :
       LET mine == SelectSeq(decls, LAMBDA d : d.name = nss[i].k)
           functions == concat([j \in 1..Len(mine) |-> mine[j].functions])
           funs == nss[i].v.funs
       IN  /\ IndexMap_keys(funs) = FirstOccurrences(NamesOf(functions), 1)
           /\ \A a \in 1..Len(funs) : funs[a].v.decl = LastNamed(functions, funs[a].k)
           /\ FirstInsertionOrder(nss[i].v.children,
                                  concat([j \in 1..Len(mine) |-> mine[j].namespaces]))

\* C23: the siblings of the merged forest, namespaces and functions, stand in
\* first-insertion order at every level: a later module moves no name already
\* present, its new names follow in its declaration order, and a function it
\* overwrites keeps its position and takes the later definition.
C23_FirstInsertionOrder ==
  Emitted => FirstInsertionOrder(namespaces, DeclsOf(modules))

\* module 2 overwrites the first function of svc.util, adds a function after
\* it and adds a function to svc after the one module 1 declared
C23_Witness ==
  /\ Emitted
  /\ Len(modules) = 2
  /\ Len(namespaces) = 1
  /\ LET svc == namespaces[1].v
     IN  /\ Len(svc.funs) = 2
         /\ svc.funs[1].v.decl.loc.module = 1
         /\ svc.funs[2].v.decl.loc.module = 2
         /\ Len(svc.children) = 1
         /\ LET util == svc.children[1].v
            IN  /\ Len(util.funs) = 2
                /\ util.funs[1].v.decl.loc.module = 2
                /\ \A m \in 1..2 :
                     \E d \in Range(modules[m].namespaces) :
                       \E c \in Range(d.namespaces) :
                         \E f \in Range(c.functions) : f.name = util.funs[1].k

-----------------------------------------------------------------------------
(* Type paths and the modules they name                                     *)

\* the module lines open around line i: no module line between them and i
\* stands at their indent or further out
EnclosingModLines(i) ==
  { k \in ModLines :
      /\ k < i
      /\ out[k].indent < out[i].indent
      /\ \A k2 \in ModLines : (k < k2 /\ k2 < i) => out[k2].indent > out[k].indent }

\* the identifiers of the modules around the module opened at line i, from
\* the outermost in, then its own
ModulePathOf(i) ==
  LET picked == SelectSeq([k \in 1..Len(out) |-> k], LAMBDA k : k \in EnclosingModLines(i))
  IN  [k \in 1..Len(picked) |-> out[picked[k]].args[1]] \o << out[i].args[1] >>

\* the segments of a type path written with :: between them
PathSegments(path) == SelectSeq(split(path, ":"), LAMBDA seg : seg # << >>)

\* the lines of fn deserialize that name the record type of a Fun
DeserTypeLines == LinesOf("Ok({}::{}(deser::<{}::{}>(de)?)),")

\* C24: the type path written for a Fun in a union variant and in a
\* deserialize arm names the leaf module written for that Fun: its segments
\* are the identifiers of the modules around the leaf module, then the
\* identifier of the leaf module itself.
C24_PathNamesLeafModule ==
  Emitted =>
    \A i \in LeafLines :
      /\ \A v \in VariantLines :
           out[v].fun = out[i].fun => PathSegments(out[v].args[2]) = ModulePathOf(i)
      /\ \A d \in DeserTypeLines :
           out[d].fun = out[i].fun => PathSegments(out[d].args[3]) = ModulePathOf(i)

-----------------------------------------------------------------------------
(* Declared notifications                                                   *)

RECURSIVE NotificationPaths(_, _)
\* the paths of the notifications a namespace declaration declares (the
\* entries of NamespaceDecl.notifications, at any depth)
NotificationPaths(decl, ancestors) ==
  LET here == Append(ancestors, decl.name)
  IN  { Append(here, decl.notifications[i].name) : i \in 1..Len(decl.notifications) }
      \cup UNION { NotificationPaths(decl.namespaces[i], here) :
                     i \in 1..Len(decl.namespaces) }

\* the paths of the notifications the input declares
DeclaredNotificationPaths ==
  UNION { UNION { NotificationPaths(modules[m].namespaces[d], << >>) :
                    d \in 1..Len(modules[m].namespaces) } :
            m \in 1..Len(modules) }

\* C25: every notification declared in a namespace of the input is a Fun of
\* the merged forest under its path, with one NotificationParams variant and
\* one leaf module in the artifact; the NotificationParams union has a
\* variant whenever the input declares a notification.
C25_NotificationsBecomeFuns ==
  Emitted =>
    /\ \A p \in DeclaredNotificationPaths :
         /\ \E f \in ForestFuns : f.tokens = p
         /\ VariantCount(p, S_NotificationParams) = 1
         /\ LeafCount(p) = 1
    /\ DeclaredNotificationPaths # {} =>
         \E v \in VariantLines : EnumOf(v) = S_NotificationParams

====
